---------------------------- MODULE Spec2Model ----------------------------
(***************************************************************************)
(* A model of app_owners.py: the amount parser safe_float, the per-day and *)
(* per-range aggregations (day_totals, range_series, the two dashboards)   *)
(* and the handlers that write the record store.                           *)
(*                                                                         *)
(* Strings are sequences of one-character strings.  A float is the exact   *)
(* rational [num, den] it denotes (den a power of ten for parsed text).    *)
(* Dates are proleptic Gregorian ordinals, as date.toordinal() gives them. *)
(***************************************************************************)
EXTENDS Integers, Sequences, FiniteSets, TLC

VARIABLES
    business_days,       \* table business_days: set of rows
    shift_records,       \* table shift_records: set of rows
    expense_entries,     \* table expense_entries: set of rows
    expense_categories,  \* table expense_categories: set of rows
    req,                 \* the call or request being served
    resp                 \* its result ("pending" until it has run)

vars == <<business_days, shift_records, expense_entries, expense_categories, req, resp>>

store == <<business_days, shift_records, expense_entries, expense_categories>>

(***************************************************************************)
(* Bounds of the model.                                                    *)
(***************************************************************************)
\* longest exhaustively enumerated input string of the parser
MaxLen == 5

ValueError == [tag |-> "ValueError"]
Pending == [tag |-> "pending"]

(***************************************************************************)
(* Strings                                                                 *)
(***************************************************************************)
Digits == {"0", "1", "2", "3", "4", "5", "6", "7", "8", "9"}

DigitVal(c) ==
    CASE c = "0" -> 0 [] c = "1" -> 1 [] c = "2" -> 2 [] c = "3" -> 3
      [] c = "4" -> 4 [] c = "5" -> 5 [] c = "6" -> 6 [] c = "7" -> 7
      [] c = "8" -> 8 [] c = "9" -> 9

Whitespace == {" ", "\t"}

\* str.strip(): leading and trailing whitespace removed
RECURSIVE lstrip(_)
lstrip(s) == IF s # <<>> /\ Head(s) \in Whitespace THEN lstrip(Tail(s)) ELSE s

RECURSIVE rstrip(_)
rstrip(s) ==
    IF s # <<>> /\ s[Len(s)] \in Whitespace THEN rstrip(SubSeq(s, 1, Len(s) - 1)) ELSE s

strip(s) == rstrip(lstrip(s))

\* str.replace(c, ""): every occurrence of the character removed
remove(s, c) == SelectSeq(s, LAMBDA x : x # c)

\* str.replace(c, d) for single characters
replace(s, c, d) == [i \in 1..Len(s) |-> IF s[i] = c THEN d ELSE s[i]]

\* c in s
contains(s, c) == \E i \in 1..Len(s) : s[i] = c

\* str.rfind(c): 0-based index of the last occurrence, -1 when there is none
rfind(s, c) ==
    IF contains(s, c)
    THEN (CHOOSE i \in 1..Len(s) : s[i] = c /\ \A j \in (i+1)..Len(s) : s[j] # c) - 1
    ELSE -1

\* re.sub(r"[^0-9,\.\-]", "", s)
keep_numeric(s) == SelectSeq(s, LAMBDA x : x \in Digits \cup {",", ".", "-"})

AllDigits(s) == \A i \in 1..Len(s) : s[i] \in Digits

\* the pattern with groups of one to three digits instead of exactly three
match_thousands_loose(s, sep) ==
    LET t == IF s # <<>> /\ Head(s) = "-" THEN Tail(s) ELSE s
    IN  /\ contains(t, sep)
        /\ Len(t) >= 3
        /\ \A i \in 1..Len(t) : t[i] \in Digits \cup {sep}
        /\ t[1] # sep /\ t[Len(t)] # sep
        /\ \A i \in 1..(Len(t) - 1) : ~(t[i] = sep /\ t[i+1] = sep)
        /\ \A i \in 1..(Len(t) - 3) : \E j \in i..(i+3) : t[j] = sep

\* re.match(r"^-?\d{1,3}(SEP\d{3})+$", s)
match_thousands(s, sep) ==
    LET t == IF s # <<>> /\ Head(s) = "-" THEN Tail(s) ELSE s
    IN  \E k \in 1..3 :
            /\ Len(t) >= k + 4
            /\ (Len(t) - k) % 4 = 0
            /\ AllDigits(SubSeq(t, 1, k))
            /\ \A i \in (k+1)..Len(t) :
                   IF (i - k) % 4 = 1 THEN t[i] = sep ELSE t[i] \in Digits

(***************************************************************************)
(* Numbers                                                                 *)
(***************************************************************************)
RECURSIVE Pow10(_)
Pow10(n) == IF n = 0 THEN 1 ELSE 10 * Pow10(n - 1)

RECURSIVE DigitsVal(_)
DigitsVal(s) ==
    IF s = <<>> THEN 0 ELSE 10 * DigitsVal(SubSeq(s, 1, Len(s) - 1)) + DigitVal(s[Len(s)])

Float(n, d) == [tag |-> "float", num |-> n, den |-> d]

Zero == Float(0, 1)

IsFloat(r) == r.tag = "float"

\* the same number with the common factors of ten removed
RECURSIVE Reduce10(_)
Reduce10(a) ==
    IF a.den % 10 = 0 /\ a.num % 10 = 0
    THEN Reduce10([a EXCEPT !.num = a.num \div 10, !.den = a.den \div 10])
    ELSE a

\* numeric equality of two floats
NumEq(a, b) ==
    LET x == Reduce10(a)
        y == Reduce10(b)
    IN  x.num * y.den = y.num * x.den

\* float(s) of a str holding only digits, separators and signs: an optional
\* leading minus, digits with at most one period, at least one digit; anything
\* else raises ValueError
pyfloat(s) ==
    LET neg  == s # <<>> /\ Head(s) = "-"
        body == IF neg THEN Tail(s) ELSE s
        dots == Len(SelectSeq(body, LAMBDA x : x = "."))
        digs == remove(body, ".")
    IN  IF digs = <<>> \/ ~AllDigits(digs) \/ dots > 1
        THEN ValueError
        ELSE LET frac == IF dots = 1 THEN Len(body) - (rfind(body, ".") + 1) ELSE 0
                 mag  == DigitsVal(digs)
             IN  Float(IF neg THEN 0 - mag ELSE mag, Pow10(frac))

(***************************************************************************)
(* safe_float                                                              *)
(***************************************************************************)
\* line 145: with both separators present, is the period the decimal point?
decimal_is_period_swapped(s) == rfind(s, ".") < rfind(s, ",")

decimal_is_period(s) == rfind(s, ".") > rfind(s, ",")

\* the parser's input: None, a number, or a str
NoneArg == [kind |-> "none"]
NumArg(n) == [kind |-> "num", val |-> n]
StrArg(s) == [kind |-> "str", chars |-> s]

\* lines 135-142: the cleaned string
safe_float_clean(s) == keep_numeric(remove(remove(strip(s), "$"), " "))

safe_float_str(s0) ==
    IF strip(s0) = <<>> THEN Zero
    ELSE LET s == safe_float_clean(s0)
         IN  IF s = <<>> \/ s \in {<<"-">>, <<",">>, <<".">>} THEN Zero
             ELSE IF contains(s, ",") /\ contains(s, ".")
                  THEN IF decimal_is_period(s)
                       THEN pyfloat(remove(s, ","))
                       ELSE pyfloat(replace(remove(s, "."), ",", "."))
             ELSE IF contains(s, ",")
                  THEN IF match_thousands(s, ",")
                       THEN pyfloat(remove(s, ","))
                       ELSE pyfloat(replace(s, ",", "."))
             ELSE IF contains(s, ".")
                  THEN IF match_thousands(s, ".")
                       THEN pyfloat(remove(s, "."))
                       ELSE pyfloat(s)
             ELSE pyfloat(s)

safe_float(v) ==
    IF v.kind = "none" THEN Zero
    ELSE IF v.kind = "num" THEN Float(v.val, 1)
    ELSE safe_float_str(v.chars)

(***************************************************************************)
(* The parser under check: one call of safe_float on an input drawn from   *)
(* every string of at most MaxLen characters of EnumChars, the strings the *)
(* documentation names, None and a few numbers.                            *)
(***************************************************************************)
EnumChars == {"0", "1", ",", ".", "-", "$"}

EnumStrs == UNION {[1..k -> EnumChars] : k \in 0..MaxLen}

ExampleStrs ==
    { <<"1", ".", "2", "3", "4", ",", "5", "6">>,
      <<"1", ",", "2", "3", "4", ".", "5", "6">>,
      <<"2", "2", "1", ".", "2", "2", "3", ",", "5", "0">>,
      <<"2", "2", "1", ",", "2", "2", "3", ".", "5", "0">>,
      <<"$", " ", "2", "2", "1", ".", "2", "2", "3", ",", "5", "0">>,
      <<"-", "1", ".", "2", "3", "4", ",", "5", "6">>,
      <<"-", "1", ",", "2", "3", "4", ".", "5", "6">>,
      <<"1", ",", "2", "3", "4", ",", "5", "6", "7">>,
      <<"1", ".", "2", "3", "4", ".", "5", "6", "7">>,
      <<"1", ",", "2", "3", "4">>,
      <<"1", ".", "2", "3", "4">>,
      <<"1", "2", "3", ",", "4", "5">>,
      <<"1", "2", "3", ".", "4", "5">>,
      <<"2", "2", "1", "2", "2", "3">>,
      <<"1", ",", "2", ",", "3">>,
      <<"1", ".", "2", ".", "3", ",", "4", ",", "5">>,
      <<"5", "-", "3">>,
      <<" ", "7", " ">>,
      <<"\t">>,
      <<"a", "b", "c">>,
      <<"x", "1", "2", "y">> }

NumInputs == {0 - 3, 0, 7}

ParseInputs ==
    {NoneArg} \cup {NumArg(n) : n \in NumInputs}
              \cup {StrArg(s) : s \in EnumStrs \cup ExampleStrs}

EmptyStore ==
    /\ business_days = {}
    /\ shift_records = {}
    /\ expense_entries = {}
    /\ expense_categories = {}

InitParse ==
    /\ EmptyStore
    /\ req \in {[op |-> "safe_float", v |-> x] : x \in ParseInputs}
    /\ resp = Pending

call_safe_float ==
    /\ req.op = "safe_float"
    /\ resp = Pending
    /\ resp' = safe_float(req.v)
    /\ UNCHANGED <<store, req>>

NextParse == call_safe_float

SpecParse == InitParse /\ [][NextParse]_vars

(***************************************************************************)
(* Claims about safe_float                                                 *)
(***************************************************************************)
ParseDone == req.op = "safe_float" /\ resp # Pending

ParsedStr == ParseDone /\ req.v.kind = "str"

\* the input of the call, cleaned as lines 135-140 clean it (<<>> if not a str)
Cleaned == IF req.op = "safe_float" /\ req.v.kind = "str" THEN safe_float_clean(req.v.chars) ELSE <<>>

Count(s, c) == Cardinality({i \in 1..Len(s) : s[i] = c})

OtherSep(c) == IF c = "," THEN "." ELSE ","

\* C1: safe_float is total: every call returns a number, never raises, and an
\* empty or None input gives 0.
C1_SafeFloatTotal ==
    ParseDone =>
        /\ IsFloat(resp)
        /\ (req.v.kind = "none" \/ (req.v.kind = "str" /\ Cleaned = <<>>)) => NumEq(resp, Zero)

\* C10: an input with no digit left after cleaning (empty, or only signs and
\* separators) gives 0.
C10_NoDigitGivesZero ==
    (ParsedStr /\ \A i \in 1..Len(req.v.chars) : req.v.chars[i] \notin Digits)
        => (IsFloat(resp) /\ NumEq(resp, Zero))

\* the rightmost separator character of a string that has one
LastSep(s) ==
    LET p == CHOOSE i \in 1..Len(s) :
                 /\ s[i] \in {",", "."}
                 /\ \A j \in (i+1)..Len(s) : s[j] \notin {",", "."}
    IN  s[p]

C8_Examples ==
    { [s |-> <<"1", ".", "2", "3", "4", ",", "5", "6">>, num |-> 123456, den |-> 100],
      [s |-> <<"1", ",", "2", "3", "4", ".", "5", "6">>, num |-> 123456, den |-> 100],
      [s |-> <<"2", "2", "1", ".", "2", "2", "3", ",", "5", "0">>, num |-> 22122350, den |-> 100],
      [s |-> <<"2", "2", "1", ",", "2", "2", "3", ".", "5", "0">>, num |-> 22122350, den |-> 100],
      [s |-> <<"$", " ", "2", "2", "1", ".", "2", "2", "3", ",", "5", "0">>, num |-> 22122350, den |-> 100],
      [s |-> <<"-", "1", ".", "2", "3", "4", ",", "5", "6">>, num |-> 0 - 123456, den |-> 100],
      [s |-> <<"-", "1", ",", "2", "3", "4", ".", "5", "6">>, num |-> 0 - 123456, den |-> 100] }

\* C8: with a comma and a period both present, the rightmost of the two is the
\* decimal point and every occurrence of the other is dropped; the documented
\* examples give 1234.56 and 221223.50, and a leading minus is kept.
C8_RightmostIsDecimal ==
    /\ (ParsedStr /\ contains(Cleaned, ",") /\ contains(Cleaned, ".")) =>
           LET dec == LastSep(Cleaned) IN
           /\ resp = pyfloat(replace(remove(Cleaned, OtherSep(dec)), dec, "."))
           /\ (IsFloat(resp) /\ Head(Cleaned) = "-") => resp.num <= 0
    /\ \A e \in C8_Examples :
           (ParsedStr /\ req.v.chars = e.s) => (IsFloat(resp) /\ NumEq(resp, Float(e.num, e.den)))

C8_Witness ==
    /\ ParsedStr
    /\ req.v.chars = <<"$", " ", "2", "2", "1", ".", "2", "2", "3", ",", "5", "0">>
    /\ resp = Float(22122350, 100)

\* the strict grouping pattern, stated on the positions of the separator: an
\* optional minus, one to three digits, then groups of the separator and
\* exactly three digits
C9_Strict(s, sep) ==
    LET t == IF s # <<>> /\ Head(s) = "-" THEN Tail(s) ELSE s
        P == {i \in 1..Len(t) : t[i] = sep}
    IN  /\ P # {}
        /\ \A i \in (1..Len(t)) \ P : t[i] \in Digits
        /\ \A p \in P : /\ p + 3 <= Len(t)
                        /\ \A q \in P : q <= p \/ q >= p + 4
                        /\ (p + 4 \in P \/ p + 3 = Len(t))
        /\ \E p \in P : p \in 2..4 /\ \A q \in P : q >= p

\* one separator between digits, with an optional leading minus and at least one digit
C9_SingleDecimal(s, sep) ==
    LET t == IF s # <<>> /\ Head(s) = "-" THEN Tail(s) ELSE s
    IN  /\ Count(t, sep) = 1
        /\ Len(t) >= 2
        /\ \A i \in 1..Len(t) : t[i] \in Digits \cup {sep}

C9_Sign(s) == IF s # <<>> /\ Head(s) = "-" THEN 0 - 1 ELSE 1

C9_DigitsOf(s) == SelectSeq(s, LAMBDA x : x \in Digits)

C9_RuleFor(sep) ==
    (ParsedStr /\ contains(Cleaned, sep) /\ ~contains(Cleaned, OtherSep(sep))) =>
        LET s == Cleaned IN
        /\ C9_Strict(s, sep) =>
               resp = Float(C9_Sign(s) * DigitsVal(C9_DigitsOf(s)), 1)
        /\ (~C9_Strict(s, sep) /\ C9_SingleDecimal(s, sep)) =>
               /\ IsFloat(resp)
               /\ NumEq(resp, Float(C9_Sign(s) * DigitsVal(C9_DigitsOf(s)),
                                    Pow10(Len(s) - (rfind(s, sep) + 1))))
        /\ resp = safe_float(StrArg(replace(s, sep, OtherSep(sep))))

\* C9: with only commas or only periods, the separators are thousands grouping
\* exactly when the strict pattern matches; otherwise a single separator is the
\* decimal point; commas and periods follow the same rule.
C9_SingleSeparatorRule == C9_RuleFor(",") /\ C9_RuleFor(".")

C9_Witness ==
    /\ ParsedStr
    /\ req.v.chars = <<"1", ",", "0", "0", "0">>
    /\ resp = Float(1000, 1)

(***************************************************************************)
(* Dates: datetime.date as its proleptic Gregorian ordinal                 *)
(***************************************************************************)
\* number of calendar days of the window the requests and the records fall in
NumDates == 3

IsLeap(y) == y % 4 = 0 /\ (y % 100 # 0 \/ y % 400 = 0)

DaysBeforeYear(y) ==
    LET z == y - 1 IN z * 365 + (z \div 4) - (z \div 100) + (z \div 400)

DaysInMonth(y, m) ==
    IF m = 2 THEN (IF IsLeap(y) THEN 29 ELSE 28)
    ELSE IF m \in {4, 6, 9, 11} THEN 30 ELSE 31

RECURSIVE DaysBeforeMonth(_, _)
DaysBeforeMonth(y, m) ==
    IF m = 1 THEN 0 ELSE DaysBeforeMonth(y, m - 1) + DaysInMonth(y, m - 1)

\* date(y, m, d).toordinal()
ymd2ord(y, m, d) == DaysBeforeYear(y) + DaysBeforeMonth(y, m) + d

Years == 2024..2026

\* date.year and date.month of an ordinal
ord2year(n) == CHOOSE y \in Years : ymd2ord(y, 1, 1) <= n /\ n < ymd2ord(y + 1, 1, 1)

ord2month(n) ==
    LET y == ord2year(n)
    IN  CHOOSE m \in 1..12 :
            /\ ymd2ord(y, m, 1) <= n
            /\ n < ymd2ord(y, m, 1) + DaysInMonth(y, m)

\* date.weekday(): Monday = 0 ... Sunday = 6
\* date.isoformat(): the year, month and day of an ordinal, the text "YYYY-MM-DD"
isoformat(n) ==
    <<ord2year(n), ord2month(n), (n - ymd2ord(ord2year(n), ord2month(n), 1)) + 1>>

\* parse_ymd of the text of a valid date
parse_ymd(s) == ymd2ord(s[1], s[2], s[3])

weekday(n) == (n + 6) % 7

\* the weekday test of a variant that takes Saturday for the day off
is_sunday_off_by_one(d) == weekday(d) = 5

is_sunday(d) == weekday(d) = 6

isoweek1monday(y) ==
    LET firstday     == ymd2ord(y, 1, 1)
        firstweekday == (firstday + 6) % 7
        week1monday  == firstday - firstweekday
    IN  IF firstweekday > 3 THEN week1monday + 7 ELSE week1monday

\* date.isocalendar()[:2]: <<ISO year, ISO week>>
isocalendar_yw(n) ==
    LET y    == ord2year(n)
        week == (n - isoweek1monday(y)) \div 7
    IN  IF week < 0
        THEN <<y - 1, ((n - isoweek1monday(y - 1)) \div 7) + 1>>
        ELSE IF week >= 52 /\ n >= isoweek1monday(y + 1)
             THEN <<y + 1, 1>>
             ELSE <<y, week + 1>>

\* the first day of the window: Saturday 2025-03-01
DayBase == ymd2ord(2025, 3, 1)

Dates == DayBase..(DayBase + NumDates - 1)

\* iter_dates and iter_workdays, as ascending sequences
RECURSIVE iter_dates(_, _)
iter_dates(d1, d2) == IF d1 > d2 THEN <<>> ELSE <<d1>> \o iter_dates(d1 + 1, d2)

\* an iter_workdays that yields every date of the range
iter_workdays_all(d1, d2) == iter_dates(d1, d2)

iter_workdays(d1, d2) == SelectSeq(iter_dates(d1, d2), LAMBDA d : ~is_sunday(d))

(***************************************************************************)
(* The record store.  A nullable Float column holds <<>> (NULL) or <<x>>,  *)
(* x a whole number of currency units.  The free-text note columns, which  *)
(* no total reads, are left out.                                           *)
(***************************************************************************)
Null == <<>>

Val(x) == <<x>>

\* Python's "x or 0" on a nullable number
or0(x) == IF x = Null THEN 0 ELSE x[1]

\* SQL coalesce(x, d)
coalesce(x, d) == IF x = Null THEN Val(d) ELSE x

RECURSIVE SumF(_, _)
SumF(f, S) ==
    IF S = {} THEN 0
    ELSE LET x == CHOOSE x \in S : TRUE IN f[x] + SumF(f, S \ {x})

\* SQL SUM over the rows S of the nullable values f: NULL rows are skipped,
\* and the sum of no value is NULL
SqlSum(f, S) ==
    LET nn == {x \in S : f[x] # Null}
    IN  IF nn = {} THEN Null ELSE Val(SumF([x \in nn |-> f[x][1]], nn))

ShiftLabels == <<"Mañana", "Tarde">>

Kinds == {"fixed", "variable"}

BusinessDay(id, day, status) == [id |-> id, day |-> day, status |-> status]

ShiftRecord(id, bdid, shift, income, var, fix, closed) ==
    [id |-> id, business_day_id |-> bdid, shift |-> shift, income |-> income,
     variable_expense_total |-> var, fixed_expense_total |-> fix, is_closed |-> closed]

ExpenseCategory(id, kind, name) == [id |-> id, kind |-> kind, name |-> name]

ExpenseEntry(id, bdid, kind, cid, amount) ==
    [id |-> id, business_day_id |-> bdid, kind |-> kind, category_id |-> cid,
     amount |-> amount]

\* the relationships BusinessDay.shifts and BusinessDay.expenses
shifts_of(bday) == {s \in shift_records : s.business_day_id = bday.id}

expenses_of(bday) == {e \in expense_entries : e.business_day_id = bday.id}

\* BusinessDay.query.filter_by(day=d).first(): the set holding the row, or {}
day_row(d) == {b \in business_days : b.day = d}

(***************************************************************************)
(* day_totals                                                              *)
(***************************************************************************)
Totals(income, var_exp, fix_exp) ==
    [income |-> income, variable_expense |-> var_exp, fixed_expense |-> fix_exp,
     expense_total |-> var_exp + fix_exp, profit |-> income - (var_exp + fix_exp)]

\* a day_totals that adds the legacy shift totals to the category totals
day_totals_blended(bday) ==
    LET sh == shifts_of(bday)
        ex == expenses_of(bday)
    IN  Totals(SumF([s \in sh |-> or0(s.income)], sh),
               SumF([e \in ex |-> IF e.kind = "variable" THEN or0(e.amount) ELSE 0], ex)
                 + SumF([s \in sh |-> or0(s.variable_expense_total)], sh),
               SumF([e \in ex |-> IF e.kind = "fixed" THEN or0(e.amount) ELSE 0], ex)
                 + SumF([s \in sh |-> or0(s.fixed_expense_total)], sh))

day_totals(bday) ==
    LET sh     == shifts_of(bday)
        ex     == expenses_of(bday)
        income == SumF([s \in sh |-> or0(s.income)], sh)
        exvar  == {e \in ex : e.kind = "variable"}
        exfix  == {e \in ex : e.kind = "fixed"}
    IN  IF Cardinality(ex) > 0
        THEN Totals(income,
                    SumF([e \in exvar |-> or0(e.amount)], exvar),
                    SumF([e \in exfix |-> or0(e.amount)], exfix))
        ELSE Totals(income,
                    SumF([s \in sh |-> or0(s.variable_expense_total)], sh),
                    SumF([s \in sh |-> or0(s.fixed_expense_total)], sh))

(***************************************************************************)
(* range_series: the SQL query, then the loop over its rows                *)
(***************************************************************************)
\* exp_sub: expense_entries grouped by business_day_id; for a day with no
\* entry the outer join gives NULL columns
exp_sub(bdid) ==
    LET g == {e \in expense_entries : e.business_day_id = bdid}
    IN  IF g = {}
        THEN [cnt |-> Null, var_cat |-> Null, fix_cat |-> Null]
        ELSE [cnt     |-> Val(Cardinality(g)),
              var_cat |-> coalesce(SqlSum([e \in g |-> IF e.kind = "variable"
                                                       THEN e.amount ELSE Val(0)], g), 0),
              fix_cat |-> coalesce(SqlSum([e \in g |-> IF e.kind = "fixed"
                                                       THEN e.amount ELSE Val(0)], g), 0)]

\* sh_sub: shift_records grouped by business_day_id
sh_sub(bdid) ==
    LET g == {s \in shift_records : s.business_day_id = bdid}
    IN  IF g = {}
        THEN [income |-> Null, var_sh |-> Null, fix_sh |-> Null]
        ELSE [income |-> coalesce(SqlSum([s \in g |-> s.income], g), 0),
              var_sh |-> coalesce(SqlSum([s \in g |-> s.variable_expense_total], g), 0),
              fix_sh |-> coalesce(SqlSum([s \in g |-> s.fixed_expense_total], g), 0)]

\* the filter of the query with an exclusive upper end
rs_in_range_exclusive(b, d1, d2) == b.day >= d1 /\ b.day < d2

\* .filter(BusinessDay.day >= d1, BusinessDay.day <= d2)
rs_in_range(b, d1, d2) == b.day >= d1 /\ b.day <= d2

\* a row that takes the legacy totals of the shifts whenever the day has shift
\* rows, and the category sums only when it has none
rs_row_legacy_first(b) ==
    LET sh == sh_sub(b.id)
        ex == exp_sub(b.id)
    IN  [day     |-> b.day,
         income  |-> coalesce(sh.income, 0),
         var_exp |-> IF sh.var_sh # Null THEN sh.var_sh ELSE coalesce(ex.var_cat, 0),
         fix_exp |-> IF sh.fix_sh # Null THEN sh.fix_sh ELSE coalesce(ex.fix_cat, 0)]

\* one row of the query for the business day b
rs_row(b) ==
    LET sh == sh_sub(b.id)
        ex == exp_sub(b.id)
        by_category == coalesce(ex.cnt, 0)[1] > 0
    IN  [day     |-> b.day,
         income  |-> coalesce(sh.income, 0),
         var_exp |-> IF by_category THEN ex.var_cat ELSE coalesce(sh.var_sh, 0),
         fix_exp |-> IF by_category THEN ex.fix_cat ELSE coalesce(sh.fix_sh, 0)]

\* .order_by(BusinessDay.day.asc()).all()
RECURSIVE order_by_day(_)
order_by_day(S) ==
    IF S = {} THEN <<>>
    ELSE LET b == CHOOSE b \in S : \A c \in S : b.day <= c.day
         IN  <<b>> \o order_by_day(S \ {b})

rs_rows(d1, d2) ==
    LET days == order_by_day({b \in business_days : rs_in_range(b, d1, d2)})
    IN  [i \in 1..Len(days) |-> rs_row(days[i])]

\* the loop's skip test without the Sunday filter
rs_skip_never(r) == FALSE

\* lines 356-357: if is_sunday(r.day): continue
rs_skip(r) == is_sunday(r.day)

\* a tuple whose profit forgets the fixed expenses
rs_tuple_profit_slip(r) ==
    LET income  == or0(r.income)
        var_exp == or0(r.var_exp)
        fix_exp == or0(r.fix_exp)
    IN  [date |-> r.day, income |-> income, variable_expense |-> var_exp,
         fixed_expense |-> fix_exp, expense_total |-> var_exp + fix_exp,
         profit |-> income - var_exp]

\* lines 358-372: the tuple appended for a row
rs_tuple(r) ==
    LET income    == or0(r.income)
        var_exp   == or0(r.var_exp)
        fix_exp   == or0(r.fix_exp)
        exp_total == var_exp + fix_exp
    IN  [date |-> r.day, income |-> income, variable_expense |-> var_exp,
         fixed_expense |-> fix_exp, expense_total |-> exp_total,
         profit |-> income - exp_total]

range_series(d1, d2) ==
    LET kept == SelectSeq(rs_rows(d1, d2), LAMBDA r : ~rs_skip(r))
    IN  [i \in 1..Len(kept) |-> rs_tuple(kept[i])]

\* a period_previous that leaves one day between the two ranges
period_previous_gap(d1, d2) ==
    LET days    == (d2 - d1) + 1
        prev_to == d1 - 2
    IN  <<prev_to - (days - 1), prev_to>>

\* period_previous
period_previous(d1, d2) ==
    LET days    == (d2 - d1) + 1
        prev_to == d1 - 1
    IN  <<prev_to - (days - 1), prev_to>>

(***************************************************************************)
(* The aggregations under check: a record store drawn from the bounded     *)
(* contents below, then one call of day_totals or range_series.  The store *)
(* contents are those the schema admits (one row per day, one shift row    *)
(* per day and label, nullable amounts), Sundays included.                 *)
(***************************************************************************)
\* the shift rows of one day, as <<label, income, variable total, fixed total>>
AggShiftChoices ==
    { {},
      {<<"Mañana", Val(100), Val(30), Val(20)>>, <<"Tarde", Val(60), Val(5), Val(0)>>},
      {<<"Mañana", Null, Null, Null>>, <<"Tarde", Val(45), Null, Val(9)>>} }

\* the expense entries of one day, as <<kind, amount>>, in insertion order
AggExpenseChoices ==
    { <<>>,
      <<<<"variable", Val(7)>>>>,
      <<<<"fixed", Val(11)>>, <<"variable", Null>>>>,
      <<<<"variable", Val(7)>>, <<"fixed", Val(11)>>, <<"variable", Val(2)>>>> }

AggDayChoices == {"absent"} \cup (AggShiftChoices \X AggExpenseChoices)

\* the two categories every drawn entry refers to, one of each kind
AggCategories ==
    {ExpenseCategory(1, "variable", "Insumos"), ExpenseCategory(2, "fixed", "Alquiler")}

LabelIndex(l) == CHOOSE i \in 1..Len(ShiftLabels) : ShiftLabels[i] = l

\* the tables that hold the content c, a function from Dates to AggDayChoices
AggStored(c) == {d \in Dates : c[d] # "absent"}

AggBusinessDays(c) == {BusinessDay(d - DayBase + 1, d, "draft") : d \in AggStored(c)}

AggShiftRecords(c) ==
    UNION { { ShiftRecord(10 * (d - DayBase + 1) + LabelIndex(r[1]), d - DayBase + 1,
                          r[1], r[2], r[3], r[4], FALSE) : r \in c[d][1] }
            : d \in AggStored(c) }

AggExpenseEntries(c) ==
    UNION { { ExpenseEntry(10 * (d - DayBase + 1) + i, d - DayBase + 1, c[d][2][i][1],
                           IF c[d][2][i][1] = "variable" THEN 1 ELSE 2, c[d][2][i][2])
              : i \in 1..Len(c[d][2]) }
            : d \in AggStored(c) }

Idle == [op |-> "idle"]

InitAgg ==
    /\ \E c \in [Dates -> AggDayChoices] :
           /\ business_days = AggBusinessDays(c)
           /\ shift_records = AggShiftRecords(c)
           /\ expense_entries = AggExpenseEntries(c)
    /\ expense_categories = AggCategories
    /\ req = Idle
    /\ resp = Pending

call_day_totals ==
    /\ req = Idle
    /\ \E b \in business_days :
           /\ req' = [op |-> "day_totals", day |-> b.day]
           /\ resp' = [tag |-> "totals", totals |-> day_totals(b)]
    /\ UNCHANGED store

call_range_series ==
    /\ req = Idle
    /\ \E d1 \in Dates, d2 \in Dates :
           /\ req' = [op |-> "range_series", d1 |-> d1, d2 |-> d2]
           /\ resp' = [tag |-> "series", series |-> range_series(d1, d2)]
    /\ UNCHANGED store

NextAgg == call_day_totals \/ call_range_series

SpecAgg == InitAgg /\ [][NextAgg]_vars

(***************************************************************************)
(* Claims about day_totals and range_series                                *)
(***************************************************************************)
TotalsDone == req.op = "day_totals" /\ resp.tag = "totals"

SeriesDone == req.op = "range_series" /\ resp.tag = "series"

\* the stored record of a date, and its children, read off the tables
RecordOf(d) == CHOOSE b \in business_days : b.day = d

EntriesOn(d) == {e \in expense_entries : e.business_day_id = RecordOf(d).id}

ShiftsOn(d) == {s \in shift_records : s.business_day_id = RecordOf(d).id}

EntrySum(d, kind) ==
    LET g == {e \in EntriesOn(d) : e.kind = kind}
    IN  SumF([e \in g |-> IF e.amount = Null THEN 0 ELSE e.amount[1]], g)

LegacyVariable(d) ==
    SumF([s \in ShiftsOn(d) |-> IF s.variable_expense_total = Null THEN 0
                                ELSE s.variable_expense_total[1]], ShiftsOn(d))

LegacyFixed(d) ==
    SumF([s \in ShiftsOn(d) |-> IF s.fixed_expense_total = Null THEN 0
                                ELSE s.fixed_expense_total[1]], ShiftsOn(d))

IncomeOn(d) ==
    SumF([s \in ShiftsOn(d) |-> IF s.income = Null THEN 0 ELSE s.income[1]], ShiftsOn(d))

\* C2: with at least one ExpenseEntry the day's variable and fixed expenses are
\* the entry sums by kind and the legacy shift totals are ignored; with none
\* they are the legacy shift totals. Never a blend.
C2_CategoryPathOverridesLegacy ==
    TotalsDone =>
        LET t == resp.totals
            d == req.day
        IN  IF EntriesOn(d) # {}
            THEN /\ t.variable_expense = EntrySum(d, "variable")
                 /\ t.fixed_expense = EntrySum(d, "fixed")
            ELSE /\ t.variable_expense = LegacyVariable(d)
                 /\ t.fixed_expense = LegacyFixed(d)

C2_Witness ==
    /\ TotalsDone
    /\ EntriesOn(req.day) # {}
    /\ LegacyVariable(req.day) > 0
    /\ LegacyFixed(req.day) > 0
    /\ resp.totals.variable_expense # LegacyVariable(req.day)
    /\ resp.totals.variable_expense = EntrySum(req.day, "variable")

C3_Identities(t, d) ==
    /\ t.expense_total = t.variable_expense + t.fixed_expense
    /\ t.profit = t.income - t.expense_total
    /\ t.income = IncomeOn(d)

\* C3: expense_total = variable + fixed and profit = income - expense_total,
\* income being the sum of the day's shift incomes, for day_totals and for
\* every tuple of range_series.
C3_TotalsIdentities ==
    /\ TotalsDone => C3_Identities(resp.totals, req.day)
    /\ SeriesDone =>
           \A i \in 1..Len(resp.series) : C3_Identities(resp.series[i], resp.series[i].date)

C3_Witness ==
    /\ SeriesDone
    /\ \E i \in 1..Len(resp.series) :
           /\ resp.series[i].income > 0
           /\ resp.series[i].fixed_expense > 0
           /\ resp.series[i].variable_expense > 0
           /\ resp.series[i].profit = resp.series[i].income
                  - resp.series[i].variable_expense - resp.series[i].fixed_expense

\* C4: no tuple of range_series is dated on a Sunday.
C4_NoSundayInSeries ==
    SeriesDone => \A i \in 1..Len(resp.series) : (resp.series[i].date + 6) % 7 # 6

C4_Witness ==
    /\ SeriesDone
    /\ \E b \in business_days : (b.day + 6) % 7 = 6 /\ req.d1 <= b.day /\ b.day <= req.d2
    /\ Len(resp.series) > 0

\* the dates with a stored record in [d1, d2] that are not Sundays
C5_Expected(d1, d2) ==
    {b.day : b \in {c \in business_days : d1 <= c.day /\ c.day <= d2 /\ (c.day + 6) % 7 # 6}}

\* C5: range_series gives exactly one tuple per stored non-Sunday day of
\* [d1, d2], both ends included, in strictly ascending date order; a day without
\* a record gives no tuple.
C5_OneTuplePerStoredDay ==
    SeriesDone =>
        /\ {resp.series[i].date : i \in 1..Len(resp.series)} = C5_Expected(req.d1, req.d2)
        /\ Len(resp.series) = Cardinality(C5_Expected(req.d1, req.d2))
        /\ \A i \in 1..(Len(resp.series) - 1) : resp.series[i].date < resp.series[i+1].date

\* Saturday to Monday with records for Sunday and Monday only: one tuple
C5_Witness ==
    /\ SeriesDone
    /\ req.d1 = DayBase /\ req.d2 = DayBase + 2
    /\ Len(resp.series) = 1
    /\ resp.series[1].date = DayBase + 2
    /\ \E b \in business_days : b.day = DayBase + 1

(***************************************************************************)
(* The handlers that write the record store.  Each action is one request,  *)
(* served in one transaction: a request that raises commits nothing.       *)
(***************************************************************************)
\* most expense entries the store holds
MaxExpenseEntries == 1

\* the dates a request may name: a Saturday and the Sunday after it
OpDates == {DayBase, DayBase + 1}

\* a day string that parse_ymd rejects: ordinal 0 is no date
BadDate == DaysBeforeYear(1)

\* the id the database gives the next row of a table
next_id(table) ==
    IF table = {} THEN 1
    ELSE (CHOOSE r \in table : \A q \in table : q.id <= r.id).id + 1

\* a whole number of currency units out of a parsed float
money(f) == f.num \div f.den

\* the tables a handler works on, within its transaction
Tables(bd, sr, ee, ec) ==
    [business_days |-> bd, shift_records |-> sr, expense_entries |-> ee,
     expense_categories |-> ec]

Current == Tables(business_days, shift_records, expense_entries, expense_categories)

\* db.session.commit()
commit(T) ==
    /\ business_days' = T.business_days
    /\ shift_records' = T.shift_records
    /\ expense_entries' = T.expense_entries
    /\ expense_categories' = T.expense_categories

\* ShiftRecord(business_day=bday, shift=sh), with the column defaults
new_shift(T, bdid, sh) ==
    ShiftRecord(next_id(T.shift_records), bdid, sh, Val(0), Val(0), Val(0), FALSE)

\* an ensure_shifts that adds a row for every label, present or not
RECURSIVE ensure_shifts_always_from(_, _, _)
ensure_shifts_always_from(T, bdid, i) ==
    IF i > Len(ShiftLabels) THEN T
    ELSE ensure_shifts_always_from(
             [T EXCEPT !.shift_records = @ \cup {new_shift(T, bdid, ShiftLabels[i])}],
             bdid, i + 1)

\* ensure_shifts: the loop over ("Mañana", "Tarde") from the i-th label on
RECURSIVE ensure_shifts_from(_, _, _)
ensure_shifts_from(T, bdid, i) ==
    IF i > Len(ShiftLabels) THEN T
    ELSE LET existing == {s.shift : s \in {r \in T.shift_records : r.business_day_id = bdid}}
             sh       == ShiftLabels[i]
         IN  IF sh \notin existing
             THEN ensure_shifts_from(
                      [T EXCEPT !.shift_records = @ \cup {new_shift(T, bdid, sh)}],
                      bdid, i + 1)
             ELSE ensure_shifts_from(T, bdid, i + 1)

\* an ensure_shifts whose loop leaves out the first label
ensure_shifts_from_second(T, bdid) == ensure_shifts_from(T, bdid, 2)

ensure_shifts(T, bdid) == ensure_shifts_from(T, bdid, 1)

\* a status that asks for more than one closed shift
status_of_all_closed(closed) == IF Cardinality(closed) > 1 THEN "complete" ELSE "draft"

\* the status recalc_day_status sets, given the closed flags of the day's shifts
status_of(closed) == IF Cardinality(closed) > 0 THEN "complete" ELSE "draft"

\* recalc_day_status
recalc_day_status(T, bdid) ==
    LET U      == ensure_shifts(T, bdid)
        closed == {s \in U.shift_records : s.business_day_id = bdid /\ s.is_closed}
    IN  [U EXCEPT !.business_days =
            {IF b.id = bdid THEN [b EXCEPT !.status = status_of(closed)] ELSE b : b \in @}]

\* BusinessDay(day=d, note="", status="draft"); add; flush; ensure_shifts
create_day(T, d) ==
    LET id == next_id(T.business_days)
    IN  ensure_shifts([T EXCEPT !.business_days = @ \cup {BusinessDay(id, d, "draft")}], id)

\* the id of the stored day d in T (d is stored)
day_id(T, d) == (CHOOSE b \in T.business_days : b.day = d).id

has_day(T, d) == \E b \in T.business_days : b.day = d

Resp(tag, msg) == [tag |-> tag, msg |-> msg]

\* edit_day (GET /days/<day>)
edit_day ==
    \E d \in OpDates \cup {BadDate} :
        /\ req' = [op |-> "edit_day", day |-> d]
        /\ IF d = BadDate
           THEN resp' = Resp("rejected", "Fecha inválida.") /\ UNCHANGED store
           ELSE IF is_sunday(d)
           THEN resp' = Resp("rejected", "Domingo: no se trabaja. No se crea día.")
                /\ UNCHANGED store
           ELSE LET T == IF has_day(Current, d) THEN Current ELSE create_day(Current, d)
                    U == recalc_day_status(ensure_shifts(T, day_id(T, d)), day_id(T, d))
                IN  resp' = Resp("ok", "") /\ commit(U)

\* the forms of save_day: per label, the income field and the closed checkbox
SaveForm(m_income, m_closed, t_income, t_closed) ==
    [income |-> [l \in {"Mañana", "Tarde"} |-> IF l = "Mañana" THEN m_income ELSE t_income],
     closed |-> [l \in {"Mañana", "Tarde"} |-> IF l = "Mañana" THEN m_closed ELSE t_closed]]

\* "100" with Mañana closed; all blank with Tarde closed; all blank and open;
\* "5-3", on which safe_float raises
SaveForms ==
    { SaveForm(StrArg(<<"1", "0", "0">>), TRUE, NoneArg, FALSE),
      SaveForm(NoneArg, FALSE, StrArg(<<>>), TRUE),
      SaveForm(NoneArg, FALSE, NoneArg, FALSE),
      SaveForm(StrArg(<<"5", "-", "3">>), TRUE, NoneArg, TRUE) }

\* save_day: the loop over ("Mañana", "Tarde") from the i-th label on; the
\* result is the tables, or ValueError when safe_float raises
RECURSIVE save_shifts_from(_, _, _, _)
save_shifts_from(T, bdid, form, i) ==
    IF i > Len(ShiftLabels) THEN T
    ELSE LET sh     == ShiftLabels[i]
             income == safe_float(form.income[sh])
             found  == {s \in T.shift_records : s.business_day_id = bdid /\ s.shift = sh}
             U      == IF found = {}
                       THEN [T EXCEPT !.shift_records = @ \cup {new_shift(T, bdid, sh)}]
                       ELSE T
         IN  IF ~IsFloat(income) THEN ValueError
             ELSE save_shifts_from(
                      [U EXCEPT !.shift_records =
                          {IF s.business_day_id = bdid /\ s.shift = sh
                           THEN [s EXCEPT !.income = Val(money(income)),
                                          !.is_closed = form.closed[sh]]
                           ELSE s : s \in @}],
                      bdid, form, i + 1)

\* save_day (POST /days/<day>/save)
save_day ==
    \E d \in OpDates \cup {BadDate}, form \in SaveForms :
        /\ req' = [op |-> "save_day", day |-> d]
        /\ IF d = BadDate
           THEN resp' = Resp("error", "ValueError") /\ UNCHANGED store
           ELSE IF is_sunday(d)
           THEN resp' = Resp("rejected", "Domingo: no se trabaja. No se guarda día.")
                /\ UNCHANGED store
           ELSE IF ~has_day(Current, d)
           THEN resp' = Resp("rejected", "Día no encontrado.") /\ UNCHANGED store
           ELSE LET id == day_id(Current, d)
                    T  == save_shifts_from(ensure_shifts(Current, id), id, form, 1)
                IN  IF T = ValueError
                    THEN resp' = Resp("error", "ValueError") /\ UNCHANGED store
                    ELSE resp' = Resp("ok", "Guardado.") /\ commit(recalc_day_status(T, id))

\* re.sub(r"\s+", " ", name).strip()
RECURSIVE collapse_ws(_)
collapse_ws(s) ==
    IF s = <<>> THEN <<>>
    ELSE IF Head(s) \in Whitespace
         THEN <<" ">> \o collapse_ws(lstrip(s))
         ELSE <<Head(s)>> \o collapse_ws(Tail(s))

clean_name(name) == strip(collapse_ws(strip(name)))

\* the names a category form may carry: "A", " A " and blank
NameForms == {<<"A">>, <<" ", "A", " ">>, <<" ">>}

KindForms == {"fixed", "variable", "otro"}

\* a lookup that never finds a category
category_named_none(kind, name) == {}

\* ExpenseCategory.query.filter_by(kind=kind, name=name): the rows it matches
category_named(kind, name) == {c \in expense_categories : c.kind = kind /\ c.name = name}

\* add_category (POST /categories/add), the name field drawn from names
add_category_of(names) ==
    \E kind \in KindForms, name \in names :
        /\ req' = [op |-> "add_category", kind |-> kind, name |-> name]
        /\ IF kind \notin Kinds
           THEN resp' = Resp("rejected", "Tipo de categoría inválido.") /\ UNCHANGED store
           ELSE IF strip(name) = <<>>
           THEN resp' = Resp("rejected", "Poné un nombre de categoría.") /\ UNCHANGED store
           ELSE LET clean == clean_name(name)
                IN  IF category_named(kind, clean) # {}
                    THEN resp' = Resp("rejected", "Esa categoría ya existe.")
                         /\ UNCHANGED store
                    ELSE /\ resp' = Resp("ok", "Categoría agregada.")
                         /\ commit([Current EXCEPT !.expense_categories =
                                @ \cup {ExpenseCategory(next_id(@), kind, clean)}])

add_category == add_category_of(NameForms)

\* the category ids a request may name: stored ones and one that is not
CategoryIds == 1..3

\* rename_category (POST /categories/<cid>/rename), the name field drawn from names
rename_category_of(names) ==
    \E cid \in CategoryIds, name \in names :
        /\ req' = [op |-> "rename_category", cid |-> cid, name |-> name]
        /\ IF ~\E c \in expense_categories : c.id = cid
           THEN resp' = Resp("rejected", "Categoría no encontrada.") /\ UNCHANGED store
           ELSE IF strip(name) = <<>>
           THEN resp' = Resp("rejected", "El nombre no puede estar vacío.")
                /\ UNCHANGED store
           ELSE LET c     == CHOOSE c \in expense_categories : c.id = cid
                    clean == clean_name(name)
                IN  IF \E x \in category_named(c.kind, clean) : x.id # c.id
                    THEN resp' = Resp("rejected", "Ya existe una categoría con ese nombre.")
                         /\ UNCHANGED store
                    ELSE /\ resp' = Resp("ok", "Categoría actualizada.")
                         /\ commit([Current EXCEPT !.expense_categories =
                                {IF x.id = cid THEN [x EXCEPT !.name = clean] ELSE x : x \in @}])

rename_category == rename_category_of(NameForms)

\* a count that finds no entry of the category
used_none(cid) == 0

\* lines 2304-2309: the number of expense entries of category cid
used(cid) == Cardinality({e \in expense_entries : e.category_id = cid})

\* delete_category (POST /categories/<cid>/delete)
delete_category ==
    \E cid \in CategoryIds :
        /\ req' = [op |-> "delete_category", cid |-> cid]
        /\ IF ~\E c \in expense_categories : c.id = cid
           THEN resp' = Resp("rejected", "Categoría no encontrada.") /\ UNCHANGED store
           ELSE IF used(cid) > 0
           THEN resp' = Resp("rejected", "No se puede borrar: la categoría tiene gastos asociados.")
                /\ UNCHANGED store
           ELSE /\ resp' = Resp("ok", "Categoría borrada.")
                /\ commit([Current EXCEPT !.expense_categories = {x \in @ : x.id # cid}])

\* the forms of add_expense: kind, category_id (Null when blank) and amount
ExpenseForm(kind, cat_id, amt) == [kind |-> kind, category_id |-> cat_id, amount |-> amt]

\* well-formed requests for categories 1 and 2 as either kind, then one form
\* for each way of being rejected: an invalid kind, no category, a blank, zero,
\* negative or unparseable amount, an unknown category
ExpenseForms ==
    { ExpenseForm(k, Val(c), <<"5", "0">>) : k \in Kinds, c \in 1..2 }
    \cup { ExpenseForm("otro", Val(1), <<"5", "0">>),
           ExpenseForm("variable", Null, <<"5", "0">>),
           ExpenseForm("variable", Val(1), <<" ">>),
           ExpenseForm("variable", Val(1), <<"0">>),
           ExpenseForm("fixed", Val(1), <<"-", "5">>),
           ExpenseForm("fixed", Val(1), <<"1", ",", "2", ",", "3">>),
           ExpenseForm("fixed", Val(3), <<"5", "0">>) }

\* a kind test that lets every category pass
kind_differs_never(cat, kind) == FALSE

\* line 2362: cat.kind != kind
kind_differs(cat, kind) == cat.kind # kind

\* an amount test that lets zero pass
amount_rejected_below_zero(amount) == amount.num < 0

\* line 2357: amount <= 0
amount_rejected(amount) == amount.num <= 0

\* add_expense (POST /days/<day>/expense/add); the store is kept to
\* MaxExpenseEntries entries by leaving out the requests that would add one more
add_expense ==
    \E d \in OpDates \cup {BadDate}, form \in ExpenseForms :
        LET kind   == form.kind
            cat_id == form.category_id
            amt    == form.amount
        IN
        /\ req' = [op |-> "add_expense", day |-> d]
        /\ IF d = BadDate
           THEN resp' = Resp("error", "ValueError") /\ UNCHANGED store
           ELSE IF is_sunday(d)
           THEN resp' = Resp("rejected", "Domingo: no se trabaja.") /\ UNCHANGED store
           ELSE LET T      == IF has_day(Current, d) THEN Current ELSE create_day(Current, d)
                    amount == IF strip(amt) # <<>> THEN safe_float(StrArg(strip(amt))) ELSE Zero
                IN  IF kind \notin Kinds
                    THEN resp' = Resp("rejected", "Tipo de gasto inválido.") /\ commit(T)
                    ELSE IF cat_id = Null
                    THEN resp' = Resp("rejected", "Elegí una categoría.") /\ commit(T)
                    ELSE IF ~IsFloat(amount)
                    THEN resp' = Resp("rejected", "Monto inválido.") /\ commit(T)
                    ELSE IF amount_rejected(amount)
                    THEN resp' = Resp("rejected", "El monto debe ser mayor a 0.") /\ commit(T)
                    ELSE IF ~\E c \in T.expense_categories :
                                 c.id = cat_id[1] /\ ~kind_differs(c, kind)
                    THEN resp' = Resp("rejected", "Categoría inválida.") /\ commit(T)
                    ELSE /\ Cardinality(expense_entries) < MaxExpenseEntries
                         /\ resp' = Resp("ok", "Gasto agregado.")
                         /\ commit([T EXCEPT !.expense_entries = @ \cup
                                {ExpenseEntry(next_id(@), day_id(T, d), kind, cat_id[1],
                                              Val(money(amount)))}])

\* the expense ids a request may name
ExpenseIds == 1..(MaxExpenseEntries + 1)

\* a deletion that also clears the legacy totals of the shifts of the entry's day
delete_entry_clearing(T, eid) ==
    LET days == {e.business_day_id : e \in {x \in T.expense_entries : x.id = eid}}
    IN  [T EXCEPT !.expense_entries = {e \in @ : e.id # eid},
                  !.shift_records =
                      {IF s.business_day_id \in days
                       THEN [s EXCEPT !.variable_expense_total = Val(0),
                                      !.fixed_expense_total = Val(0)]
                       ELSE s : s \in @}]

\* lines 2386-2387: db.session.delete(e); db.session.commit()
delete_entry(T, eid) == [T EXCEPT !.expense_entries = {e \in @ : e.id # eid}]

\* delete_expense (POST /days/<day>/expense/<eid>/delete)
delete_expense ==
    \E eid \in ExpenseIds :
        /\ req' = [op |-> "delete_expense", eid |-> eid]
        /\ IF \E e \in expense_entries : e.id = eid
           THEN /\ resp' = Resp("ok", "Gasto borrado.")
                /\ commit(delete_entry(Current, eid))
           ELSE resp' = Resp("ok", "") /\ UNCHANGED store

(***************************************************************************)
(* The importer                                                            *)
(***************************************************************************)
\* _to_float_money on a str
to_float_money_str(s0) ==
    IF strip(s0) = <<>> THEN Zero
    ELSE LET s == safe_float_clean(s0)
         IN  IF s = <<>> THEN Zero
             ELSE IF contains(s, ",") /\ contains(s, ".")
                  THEN IF rfind(s, ".") > rfind(s, ",")
                       THEN pyfloat(remove(s, ","))
                       ELSE pyfloat(replace(remove(s, "."), ",", "."))
             ELSE IF contains(s, ",")
                  THEN IF match_thousands(s, ",")
                       THEN pyfloat(remove(s, ","))
                       ELSE pyfloat(replace(s, ",", "."))
             ELSE IF contains(s, ".") /\ match_thousands(s, ".")
                  THEN pyfloat(remove(s, "."))
             ELSE pyfloat(s)

\* _to_float_money
to_float_money(x) ==
    IF x.kind = "none" THEN Zero
    ELSE IF x.kind = "num" THEN Float(x.val, 1)
    ELSE to_float_money_str(x.chars)

\* _norm_shift on the shift cells a sheet may carry
norm_shift(s) ==
    CASE s = "mañana" -> "Mañana"
      [] s = "MA" -> "Mañana"
      [] s = " Tarde " -> "Tarde"
      [] s = "noche" -> "Noche"
      [] OTHER -> ""

\* the cells of a sheet row: the date (an ordinal, BadDate for a cell that
\* _parse_date_cell rejects, Null for an empty cell), the shift (Null for an
\* empty cell) and the three money cells
ImportRow(date, shift, income, var, fix) ==
    [date |-> date, shift |-> shift, income |-> income, var |-> var, fix |-> fix]

\* the rows the sheets below are made of
RowMorning == ImportRow(Val(DayBase), Val("mañana"), NumArg(80), NumArg(30), NumArg(20))

RowAfternoonNoDate ==
    ImportRow(Null, Val(" Tarde "), StrArg(<<"$", " ", "6", "0">>), NoneArg, NumArg(9))

RowSunday == ImportRow(Val(DayBase + 1), Val("MA"), NumArg(70), NoneArg, NoneArg)

RowNight == ImportRow(Val(DayBase), Val("noche"), NumArg(10), NoneArg, NoneArg)

RowAllZero == ImportRow(Val(DayBase), Val("mañana"), NumArg(0), StrArg(<<>>), NoneArg)

RowBadDate == ImportRow(Val(BadDate), Val("mañana"), NumArg(15), NoneArg, NoneArg)

RowNoShift == ImportRow(Val(DayBase), Null, NumArg(15), NoneArg, NoneArg)

RowLoneSign == ImportRow(Val(DayBase), Val("MA"), StrArg(<<"-">>), NoneArg, NoneArg)

\* the sheets an import may read
ImportSheets ==
    { <<RowMorning>>,
      <<RowMorning, RowAfternoonNoDate>>,
      <<RowSunday, RowAfternoonNoDate>>,
      <<RowBadDate, RowAfternoonNoDate>>,
      <<RowNight, RowAllZero, RowNoShift>>,
      <<RowMorning, RowLoneSign>> }

ImportModes == {"skip", "replace"}

\* the state of the loop of import_balance_excel over the rows of a sheet
ImportState(T, last_date, imported, skipped, replaced) ==
    [T |-> T, last_date |-> last_date, imported |-> imported, skipped |-> skipped,
     replaced |-> replaced]

\* lines 2484-2523: an accepted row (date d, shift label) is written
import_write(st, d, shift, income, var_exp, fix_exp, mode) ==
    LET T0 == IF has_day(st.T, d) THEN st.T ELSE create_day(st.T, d)
        id == day_id(T0, d)
        found == {s \in T0.shift_records : s.business_day_id = id /\ s.shift = shift}
    IN  IF found # {} /\ mode = "skip"
        THEN [st EXCEPT !.T = T0, !.skipped = @ + 1]
        ELSE LET T1 == IF found = {}
                       THEN [T0 EXCEPT !.shift_records = @ \cup {new_shift(T0, id, shift)}]
                       ELSE T0
                 T2 == [T1 EXCEPT !.shift_records =
                           {IF s.business_day_id = id /\ s.shift = shift
                            THEN [s EXCEPT !.income = Val(money(income)),
                                           !.variable_expense_total = Val(money(var_exp)),
                                           !.fixed_expense_total = Val(money(fix_exp)),
                                           !.is_closed = TRUE]
                            ELSE s : s \in @}]
                 counted == IF found # {} /\ mode = "replace"
                            THEN [st EXCEPT !.replaced = @ + 1]
                            ELSE [st EXCEPT !.imported = @ + 1]
             IN  [counted EXCEPT !.T = recalc_day_status(T2, id)]

\* the loop body for row r; ValueError when a money cell does not parse
import_row(st, r, mode) ==
    IF st = ValueError THEN ValueError
    ELSE IF r.shift = Null THEN st
    ELSE IF r.date = Null /\ st.last_date = Null THEN st
    ELSE IF r.date # Null /\ r.date[1] = BadDate THEN st
    ELSE LET d  == IF r.date = Null THEN st.last_date[1] ELSE r.date[1]
             s1 == [st EXCEPT !.last_date = Val(d)]
             shift   == norm_shift(r.shift[1])
             income  == to_float_money(r.income)
             var_exp == to_float_money(r.var)
             fix_exp == to_float_money(r.fix)
         IN  IF is_sunday(d) THEN s1
             ELSE IF shift \notin {"Mañana", "Tarde"} THEN s1
             ELSE IF ~IsFloat(income) \/ ~IsFloat(var_exp) \/ ~IsFloat(fix_exp) THEN ValueError
             ELSE IF income.num = 0 /\ var_exp.num = 0 /\ fix_exp.num = 0 THEN s1
             ELSE import_write(s1, d, shift, income, var_exp, fix_exp, mode)

RECURSIVE import_rows(_, _, _, _)
import_rows(st, sheet, i, mode) ==
    IF i > Len(sheet) THEN st
    ELSE import_rows(import_row(st, sheet[i], mode), sheet, i + 1, mode)

\* import_balance_excel, called by import_balance_post (POST /import/balance)
import_balance_excel ==
    \E sheet \in ImportSheets, mode \in ImportModes :
        /\ req' = [op |-> "import_balance_excel", sheet |-> sheet, mode |-> mode]
        /\ LET st == import_rows(ImportState(Current, Null, 0, 0, 0), sheet, 1, mode)
           IN  IF st = ValueError
               THEN resp' = Resp("error", "Error importando") /\ UNCHANGED store
               ELSE /\ resp' = [tag |-> "ok", msg |-> "Import OK", imported |-> st.imported,
                                replaced |-> st.replaced, skipped |-> st.skipped]
                    /\ commit(st.T)

Init ==
    /\ EmptyStore
    /\ req = Idle
    /\ resp = Pending

Next ==
    \/ edit_day
    \/ save_day
    \/ add_category
    \/ rename_category
    \/ delete_category
    \/ add_expense
    \/ delete_expense
    \/ import_balance_excel

Spec == Init /\ [][Next]_vars

(***************************************************************************)
(* Claims about the handlers that write the record store                   *)
(***************************************************************************)
\* the request just served named a Sunday: the day of the path, or every
\* dated row of the imported sheet
C6_SundayRequest ==
    \/ /\ req'.op \in {"edit_day", "save_day", "add_expense"}
       /\ req'.day \in OpDates
       /\ weekday(req'.day) = 6
    \/ /\ req'.op = "import_balance_excel"
       /\ \A i \in 1..Len(req'.sheet) :
              req'.sheet[i].date # Null =>
                  /\ req'.sheet[i].date[1] # BadDate
                  /\ weekday(req'.sheet[i].date[1]) = 6

\* C6: after any sequence of edit_day, save_day, add_expense and
\* import_balance_excel (and of the category and expense handlers), no stored
\* BusinessDay is dated on a Sunday, and a request that names a Sunday leaves
\* the four tables as they were.
C6_NoSundayDayStored ==
    /\ [](\A b \in business_days : weekday(b.day) # 6)
    /\ [][C6_SundayRequest => UNCHANGED store]_vars

\* add_expense for the Sunday was turned away while the Saturday is stored
C6_Witness ==
    /\ req.op = "add_expense"
    /\ req.day = DayBase + 1
    /\ resp = Resp("rejected", "Domingo: no se trabaja.")
    /\ \E b \in business_days : b.day = DayBase

(***************************************************************************)
(* The dashboards.  Each reads the store through range_series and derives  *)
(* its figures; averages and percentages are exact quotients.  The request *)
(* carries valid "from" and "to" dates; the rendering of the figures as    *)
(* HTML is left out, but not the reads of local variables it performs.     *)
(***************************************************************************)
\* sum(x[field] for x in series)
RECURSIVE SumSeq(_, _)
SumSeq(s, field) == IF s = <<>> THEN 0 ELSE Head(s)[field] + SumSeq(Tail(s), field)

\* a / b as a float, for b # 0
Div(a, b) == Float(a, b)

\* x <= n for a float x and a whole number n
FloatLe(x, n) == IF x.den > 0 THEN x.num <= n * x.den ELSE x.num >= n * x.den

\* x < n for a float x and a whole number n
FloatLt(x, n) == IF x.den > 0 THEN x.num < n * x.den ELSE x.num > n * x.den

\* a margin_bucket whose boundaries 20 and 30 belong to the upper bucket
margin_bucket_upper(margin_pct) ==
    IF margin_pct = Null THEN "-"
    ELSE IF FloatLt(margin_pct[1], 20) THEN "Malo"
    ELSE IF FloatLt(margin_pct[1], 30) THEN "Regular"
    ELSE "Bueno"

\* margin_bucket: the label of a margin percentage, Null standing for None;
\* the label of None, an em dash, is written "-"
margin_bucket(margin_pct) ==
    IF margin_pct = Null THEN "-"
    ELSE IF FloatLe(margin_pct[1], 20) THEN "Malo"
    ELSE IF FloatLe(margin_pct[1], 30) THEN "Regular"
    ELSE "Bueno"

\* the pair (d1, d2) after "if d1 > d2: d1, d2 = d2, d1"
ordered(d1, d2) == IF d1 > d2 THEN <<d2, d1>> ELSE <<d1, d2>>

\* dashboard_finanzas, lines 714-742: the period figures and the missing days
\* ranked: one item per tuple of the series, in the order of the series
ranked(series) ==
    [i \in 1..Len(series) |->
        [date   |-> series[i].date,
         income |-> series[i].income,
         expense |-> series[i].expense_total,
         profit |-> series[i].profit,
         margin |-> IF series[i].income # 0
                    THEN Val(Div(series[i].profit * 100, series[i].income))
                    ELSE Null]]

\* sorted(items, key=lambda r: r["profit"]): ascending profit; sorted() is
\* stable, so items of equal profit keep the order they have in items
sorted_by_profit(items) ==
    LET lt(i, j) == \/ items[i].profit < items[j].profit
                    \/ (items[i].profit = items[j].profit /\ i < j)
        at(k) == CHOOSE i \in 1..Len(items) :
                     Cardinality({j \in 1..Len(items) : lt(j, i)}) = k - 1
    IN  [k \in 1..Len(items) |-> items[at(k)]]

\* list(reversed(s))
reversed(s) == [i \in 1..Len(s) |-> s[Len(s) + 1 - i]]

\* worst3 = ranked_sorted[:3]
worst3(ranked_sorted) ==
    SubSeq(ranked_sorted, 1, IF Len(ranked_sorted) < 3 THEN Len(ranked_sorted) ELSE 3)

\* best3 = list(reversed(ranked_sorted[-3:]))
best3(ranked_sorted) ==
    reversed(SubSeq(ranked_sorted,
                    IF Len(ranked_sorted) < 3 THEN 1 ELSE Len(ranked_sorted) - 2,
                    Len(ranked_sorted)))

finanzas_figures(from, to) ==
    LET r        == ordered(from, to)
        series   == range_series(r[1], r[2])
        ranked_sorted == sorted_by_profit(ranked(series))
        income   == SumSeq(series, "income")
        expense  == SumSeq(series, "expense_total")
        profit   == income - expense
        margen_periodo  == IF income # 0 THEN Val(Div(profit * 100, income)) ELSE Null
        promedio_diario == IF series # <<>> THEN Div(income, Len(series)) ELSE Zero
        existing_days   == {parse_ymd(isoformat(series[i].date)) : i \in 1..Len(series)}
    IN  [tag |-> "ok", d1 |-> r[1], d2 |-> r[2], series |-> series,
         income |-> income, expense |-> expense, profit |-> profit,
         margen_periodo |-> margen_periodo, bucket_label |-> margin_bucket(margen_periodo),
         promedio_diario |-> promedio_diario,
         worst3 |-> worst3(ranked_sorted), best3 |-> best3(ranked_sorted),
         missing_days |-> SelectSeq(iter_workdays(r[1], r[2]),
                                    LAMBDA d : d \notin existing_days)]

\* ensure_shifts and recalc_day_status for every day whose id is in S
RECURSIVE recalc_days(_, _)
recalc_days(T, S) ==
    IF S = {} THEN T
    ELSE LET id == CHOOSE x \in S : \A y \in S : x <= y
         IN  recalc_days(recalc_day_status(T, id), S \ {id})

\* a dashboard_finanzas that, as list_days does, completes the shift rows of
\* the days it shows and commits
dashboard_finanzas_ensuring ==
    /\ req = Idle
    /\ \E from \in Dates, to \in Dates :
           /\ req' = [op |-> "dashboard_finanzas", from |-> from, to |-> to]
           /\ resp' = finanzas_figures(from, to)
           /\ commit(recalc_days(Current,
                     {b.id : b \in {x \in business_days :
                                      /\ x.day >= ordered(from, to)[1]
                                      /\ x.day <= ordered(from, to)[2]}}))

\* dashboard_finanzas (GET /finanzas)
dashboard_finanzas ==
    /\ req = Idle
    /\ \E from \in Dates, to \in Dates :
           /\ req' = [op |-> "dashboard_finanzas", from |-> from, to |-> to]
           /\ resp' = finanzas_figures(from, to)
    /\ UNCHANGED store

\* sorted(): the keys K, pairs of numbers, in ascending order
key_lt(a, b) == a[1] < b[1] \/ (a[1] = b[1] /\ a[2] < b[2])

RECURSIVE sorted_keys(_)
sorted_keys(K) ==
    IF K = {} THEN <<>>
    ELSE LET m == CHOOSE a \in K : \A b \in K \ {a} : key_lt(a, b)
         IN  <<m>> \o sorted_keys(K \ {m})

\* the rows of a grouping of the series by key(date): label, income, expense, profit
grouped_rows(series, key(_)) ==
    LET keys == sorted_keys({key(series[i].date) : i \in 1..Len(series)})
        of(k) == SelectSeq(series, LAMBDA x : key(x.date) = k)
    IN  [j \in 1..Len(keys) |->
            [label   |-> keys[j],
             income  |-> SumSeq(of(keys[j]), "income"),
             expense |-> SumSeq(of(keys[j]), "expense_total"),
             profit  |-> SumSeq(of(keys[j]), "income") - SumSeq(of(keys[j]), "expense_total")]]

\* a grouping that puts all the days of a year in one bucket
year_only(d) == <<ord2year(d), 1>>

weekly_rows_by_year(series) == grouped_rows(series, year_only)

\* lines 1184-1202: one row per ISO (year, week) that holds a day of the series
weekly_rows(series) == grouped_rows(series, isocalendar_yw)

year_month(d) == <<ord2year(d), ord2month(d)>>

\* lines 1208-1220: one row per calendar month that holds a day of the series
monthly_rows(series) == grouped_rows(series, year_month)

\* (sum(r[field] for r in rows) / len(rows)) if rows else 0.0
average(rows, field) == IF rows # <<>> THEN Div(SumSeq(rows, field), Len(rows)) ELSE Zero

\* line 1204 sits inside the loop that appends to weekly_rows: the local
\* avg_week_income is bound after the first row, and stays unbound (Null) when
\* the loop body never runs
avg_week_income(rows) == IF rows = <<>> THEN Null ELSE Val(average(rows, "income"))

\* a delta_pct that takes the primary value for the base
delta_pct_of_primary(a, b) == IF a = 0 THEN Null ELSE Val(Div((a - b) * 100, a))

\* delta_pct
delta_pct(a, b) == IF b = 0 THEN Null ELSE Val(Div((a - b) * 100, b))

\* the comparison settings of a request: the mode and the custom range
Compare(mode, cfrom, cto) == [compare_mode |-> mode, cfrom |-> cfrom, cto |-> cto]

\* no comparison asked; a custom one with both dates, with one or both
\* blank, or with a "cfrom" that parse_ymd rejects
CompareForms ==
    {Compare("prev", Null, Null), Compare("custom", Null, Null),
     Compare("custom", Val(DayBase), Null), Compare("custom", Val(BadDate), Val(DayBase))}
    \cup {Compare("custom", Val(c1), Val(c2)) : c1 \in Dates, c2 \in Dates}

\* lines 1327-1340: the comparison range
compare_range(d1, d2, cmp) ==
    LET p == period_previous(d1, d2)
    IN  IF cmp.compare_mode = "custom" /\ cmp.cfrom # Null /\ cmp.cto # Null
        THEN IF cmp.cfrom[1] = BadDate \/ cmp.cto[1] = BadDate
             THEN ordered(p[1], p[2])
             ELSE ordered(cmp.cfrom[1], cmp.cto[1])
        ELSE ordered(p[1], p[2])

\* lines 1231-1233: the expense entries joined to their category and to a
\* stored day of [d1, d2], as <<entry, category>> pairs
cat_joined(d1, d2) ==
    { <<e, c>> \in expense_entries \X expense_categories :
          /\ e.category_id = c.id
          /\ \E b \in business_days :
                 b.id = e.business_day_id /\ b.day >= d1 /\ b.day <= d2 }

\* a grouping that starts from every category, with or without entries
cat_groups_outer(d1, d2) ==
    LET J == cat_joined(d1, d2)
        of(k) == {j \in J : <<j[2].kind, j[2].name>> = k}
    IN  { [kind |-> k[1], name |-> k[2],
           sum  |-> SqlSum([j \in of(k) |-> j[1].amount], of(k))]
          : k \in {<<c.kind, c.name>> : c \in expense_categories} }

\* line 1234: group_by(kind, name), with func.sum(ExpenseEntry.amount)
cat_groups(d1, d2) ==
    LET J == cat_joined(d1, d2)
        of(k) == {j \in J : <<j[2].kind, j[2].name>> = k}
    IN  { [kind |-> k[1], name |-> k[2],
           sum  |-> SqlSum([j \in of(k) |-> j[1].amount], of(k))]
          : k \in {<<j[2].kind, j[2].name>> : j \in J} }

\* line 1235: order_by(func.sum(...).desc()) leaves the order of equal sums
\* open, and puts NULL sums first or last depending on the database: the
\* orders of the groups G the query may return
cat_orders(G) ==
    LET n == Cardinality(G)
    IN  { s \in [1..n -> G] :
            /\ \A i \in 1..n, j \in 1..n : i # j => s[i] # s[j]
            /\ \A i \in 1..n, j \in 1..n :
                   (i < j /\ s[i].sum # Null /\ s[j].sum # Null) => s[i].sum[1] >= s[j].sum[1]
            /\ \/ \A i \in 1..n, j \in 1..n : (s[i].sum = Null /\ s[j].sum # Null) => i < j
               \/ \A i \in 1..n, j \in 1..n : (s[i].sum = Null /\ s[j].sum # Null) => i > j }

\* lines 1225-1237: cat_rows, each row (kind, name, total), total being
\* coalesce(sum, 0.0): the results the query may return
cat_rows(d1, d2) ==
    { [i \in 1..Len(s) |-> [kind |-> s[i].kind, name |-> s[i].name, total |-> or0(s[i].sum)]]
      : s \in cat_orders(cat_groups(d1, d2)) }

\* io_dashboard, lines 1176-1222 and 1326-1365, cats being the result of the
\* cat_rows query, then the page body, which reads avg_week_income at line 1455
io_figures(from, to, cmp, cats) ==
    LET r        == ordered(from, to)
        series   == range_series(r[1], r[2])
        income   == SumSeq(series, "income")
        expense  == SumSeq(series, "expense_total")
        profit   == income - expense
        weekly   == weekly_rows(series)
        monthly  == monthly_rows(series)
        c        == compare_range(r[1], r[2], cmp)
        cseries  == range_series(c[1], c[2])
        cincome  == SumSeq(cseries, "income")
        cexpense == SumSeq(cseries, "expense_total")
        cprofit  == cincome - cexpense
    IN  IF avg_week_income(weekly) = Null
        THEN [tag |-> "UnboundLocalError"]
        ELSE [tag |-> "ok", d1 |-> r[1], d2 |-> r[2],
              income |-> income, expense |-> expense, profit |-> profit,
              weekly_rows |-> weekly,
              avg_week_income  |-> avg_week_income(weekly)[1],
              avg_week_expense |-> average(weekly, "expense"),
              avg_week_profit  |-> average(weekly, "profit"),
              monthly_rows |-> monthly,
              avg_month_income  |-> average(monthly, "income"),
              avg_month_expense |-> average(monthly, "expense"),
              cat_rows |-> cats,
              cd1 |-> c[1], cd2 |-> c[2],
              cincome |-> cincome, cexpense |-> cexpense, cprofit |-> cprofit,
              di |-> income - cincome, de |-> expense - cexpense, dp |-> profit - cprofit,
              dip |-> delta_pct(income, cincome),
              dep |-> delta_pct(expense, cexpense),
              dpp |-> delta_pct(profit, cprofit)]

\* io_dashboard (GET /io)
io_dashboard ==
    /\ req = Idle
    /\ \E from \in Dates, to \in Dates, cmp \in CompareForms :
           /\ req' = [op |-> "io_dashboard", from |-> from, to |-> to, compare |-> cmp]
           /\ \E cats \in cat_rows(ordered(from, to)[1], ordered(from, to)[2]) :
                  resp' = io_figures(from, to, cmp, cats)
    /\ UNCHANGED store

\* the content of one day of a store the dashboards read: no record, a record
\* with legacy shift totals, a record with shift rows and category entries
DashDayChoices ==
    { "absent",
      <<{<<"Mañana", Val(100), Val(30), Val(20)>>, <<"Tarde", Val(60), Val(5), Val(0)>>}, <<>>>>,
      <<{<<"Mañana", Null, Null, Null>>, <<"Tarde", Val(45), Null, Val(9)>>},
        <<<<"variable", Val(7)>>, <<"fixed", Val(11)>>, <<"variable", Val(2)>>>>>> }

InitDash ==
    /\ \E c \in [Dates -> DashDayChoices] :
           /\ business_days = AggBusinessDays(c)
           /\ shift_records = AggShiftRecords(c)
           /\ expense_entries = AggExpenseEntries(c)
    /\ expense_categories = AggCategories
    /\ req = Idle
    /\ resp = Pending

NextDash ==
    \/ call_range_series
    \/ dashboard_finanzas
    \/ io_dashboard

SpecDash == InitDash /\ [][NextDash]_vars

(***************************************************************************)
(* Claims about the dashboards                                             *)
(***************************************************************************)
\* the request just served asked for a range that holds no stored day
C7_EmptyRange(lo, hi) == \A b \in business_days : b.day < lo \/ b.day > hi

C7_Lo == IF req.op = "range_series"
         THEN req.d1
         ELSE IF req.from < req.to THEN req.from ELSE req.to

C7_Hi == IF req.op = "range_series"
         THEN req.d2
         ELSE IF req.from < req.to THEN req.to ELSE req.from

\* C7: for a valid range in which no day record is stored, range_series
\* returns the empty series, dashboard_finanzas yields zero income, expense
\* and profit, an undefined margin and a zero daily average, and io_dashboard
\* completes with zero totals and zero weekly and monthly averages, and with
\* undefined delta percentages when the comparison range is empty as well.
C7_EmptyRangeGivesZeros ==
    (req.op \in {"range_series", "dashboard_finanzas", "io_dashboard"}
       /\ C7_EmptyRange(C7_Lo, C7_Hi))
    => /\ req.op = "range_series" => resp.tag = "series" /\ resp.series = <<>>
       /\ req.op = "dashboard_finanzas" =>
              /\ resp.tag = "ok"
              /\ resp.income = 0 /\ resp.expense = 0 /\ resp.profit = 0
              /\ resp.margen_periodo = Null
              /\ resp.promedio_diario.num = 0
       /\ req.op = "io_dashboard" =>
              /\ resp.tag = "ok"
              /\ resp.income = 0 /\ resp.expense = 0 /\ resp.profit = 0
              /\ resp.avg_week_income.num = 0
              /\ resp.avg_week_expense.num = 0
              /\ resp.avg_week_profit.num = 0
              /\ resp.avg_month_income.num = 0
              /\ resp.avg_month_expense.num = 0
              /\ C7_EmptyRange(resp.cd1, resp.cd2) =>
                     resp.dip = Null /\ resp.dep = Null /\ resp.dpp = Null

(***************************************************************************)
(* margin_bucket on its own: a store whose days land in each bucket, then  *)
(* one call of margin_bucket on a margin drawn from the set below, or one  *)
(* request of the finance dashboard.                                       *)
(***************************************************************************)
\* the margins given to margin_bucket: None, the whole percentages from -5 to
\* 40, and the values one ten-thousandth either side of 0, 20 and 30
MarginInputs ==
    {Null}
    \cup {Val(Float(n, 1)) : n \in (0 - 5)..40}
    \cup {Val(Float(n, 10000)) : n \in {0 - 1, 1, 199999, 200001, 299999, 300001}}

\* the content of one day: no record, or one Mañana row with income 100 and a
\* legacy variable total that puts the margin at 20, 30, 31 or -20 percent,
\* or a row with no income at all
BucketDayChoices ==
    { "absent",
      <<{<<"Mañana", Val(100), Val(80), Val(0)>>}, <<>>>>,
      <<{<<"Mañana", Val(100), Val(70), Val(0)>>}, <<>>>>,
      <<{<<"Mañana", Val(100), Val(69), Val(0)>>}, <<>>>>,
      <<{<<"Mañana", Val(100), Val(120), Val(0)>>}, <<>>>>,
      <<{<<"Mañana", Val(0), Val(0), Val(0)>>}, <<>>>> }

InitBucket ==
    /\ \E c \in [Dates -> BucketDayChoices] :
           /\ business_days = AggBusinessDays(c)
           /\ shift_records = AggShiftRecords(c)
           /\ expense_entries = AggExpenseEntries(c)
    /\ expense_categories = AggCategories
    /\ req = Idle
    /\ resp = Pending

call_margin_bucket ==
    /\ req = Idle
    /\ \E m \in MarginInputs :
           /\ req' = [op |-> "margin_bucket", margin_pct |-> m]
           /\ resp' = [tag |-> "bucket", bucket_label |-> margin_bucket(m)]
    /\ UNCHANGED store

NextBucket ==
    \/ call_margin_bucket
    \/ dashboard_finanzas

SpecBucket == InitBucket /\ [][NextBucket]_vars

\* the bucket the claim gives to the margin num/den (den > 0), by cross-multiplication
C11_Step(margin) ==
    IF margin = Null THEN "-"
    ELSE IF margin[1].num <= 20 * margin[1].den THEN "Malo"
    ELSE IF margin[1].num <= 30 * margin[1].den THEN "Regular"
    ELSE "Bueno"

\* C11: margin_bucket is the step function None -> undefined, <= 20 -> Malo,
\* (20, 30] -> Regular, > 30 -> Bueno; the finance dashboard has a margin
\* exactly when the income of the period is nonzero, the margin is then
\* profit / income * 100, and its bucket is the step function of that margin.
C11_MarginBucketSteps ==
    /\ (req.op = "margin_bucket" /\ resp.tag = "bucket") =>
           resp.bucket_label = C11_Step(req.margin_pct)
    /\ (req.op = "dashboard_finanzas" /\ resp.tag = "ok") =>
           /\ resp.margen_periodo = Null <=> resp.income = 0
           /\ resp.income > 0 =>
                  resp.margen_periodo[1].num * resp.income
                      = resp.profit * 100 * resp.margen_periodo[1].den
           /\ resp.bucket_label = C11_Step(resp.margen_periodo)

\* the dashboard found a period margin of exactly 20 percent: Malo
C11_Witness ==
    /\ req.op = "dashboard_finanzas"
    /\ resp.tag = "ok"
    /\ resp.income = 100 /\ resp.profit = 20
    /\ resp.bucket_label = "Malo"

(***************************************************************************)
(* period_previous on its own, and as io_dashboard uses it                 *)
(***************************************************************************)
\* the number of days, from 2025-03-01 on, a primary range may span
PrevSpan == 10

PrevDates == DayBase..(DayBase + PrevSpan - 1)

\* io_dashboard calls period_previous after ordering the range: d1 <= d2
call_period_previous ==
    /\ req = Idle
    /\ \E d1 \in PrevDates, d2 \in PrevDates :
           /\ d1 <= d2
           /\ req' = [op |-> "period_previous", d1 |-> d1, d2 |-> d2]
           /\ resp' = [tag |-> "range", prev |-> period_previous(d1, d2)]
    /\ UNCHANGED store

NextPrev ==
    \/ call_period_previous
    \/ io_dashboard

SpecPrev == InitDash /\ [][NextPrev]_vars

\* the request carries a custom comparison range that io_dashboard accepts
C12_ValidCustom ==
    /\ req.compare.compare_mode = "custom"
    /\ req.compare.cfrom # Null /\ req.compare.cto # Null
    /\ req.compare.cfrom[1] # BadDate /\ req.compare.cto[1] # BadDate

\* C12: for d1 <= d2 and L = (d2 - d1) + 1, period_previous(d1, d2) is
\* [d1 - L, d1 - 1]: L days ending the day before d1; for 2025-03-01 to
\* 2025-03-10 it is 2025-02-19 to 2025-02-28; and io_dashboard compares with
\* that range whenever the request carries no valid custom range.
C12_PreviousPeriod ==
    /\ (req.op = "period_previous" /\ resp.tag = "range") =>
           LET L == (req.d2 - req.d1) + 1
           IN  /\ resp.prev = <<req.d1 - L, req.d1 - 1>>
               /\ (resp.prev[2] - resp.prev[1]) + 1 = L
               /\ resp.prev[2] + 1 = req.d1
               /\ (req.d1 = ymd2ord(2025, 3, 1) /\ req.d2 = ymd2ord(2025, 3, 10)) =>
                      resp.prev = <<ymd2ord(2025, 2, 19), ymd2ord(2025, 2, 28)>>
    /\ (req.op = "io_dashboard" /\ resp.tag = "ok" /\ ~C12_ValidCustom) =>
           LET lo == IF req.from < req.to THEN req.from ELSE req.to
               hi == IF req.from < req.to THEN req.to ELSE req.from
               L  == (hi - lo) + 1
           IN  resp.cd1 = lo - L /\ resp.cd2 = lo - 1

\* the documented example: ten days from 2025-03-01, compared with the ten before
C12_Witness ==
    /\ req.op = "period_previous"
    /\ req.d1 = ymd2ord(2025, 3, 1) /\ req.d2 = ymd2ord(2025, 3, 10)
    /\ resp.tag = "range"
    /\ resp.prev = <<ymd2ord(2025, 2, 19), ymd2ord(2025, 2, 28)>>

(***************************************************************************)
(* The weekly buckets of io_dashboard over four ISO weeks: 2025-W10 to     *)
(* 2025-W13, Monday 2025-03-03 to Sunday 2025-03-30.  The store holds any  *)
(* subset of five days of those weeks, each with its own income.           *)
(***************************************************************************)
\* Monday and Tuesday of W10, Monday of W11, Monday of W12, Saturday of W13
WeekDays == {DayBase + 2, DayBase + 3, DayBase + 9, DayBase + 16, DayBase + 28}

\* the Mondays and the Sundays of the four weeks, the ends of a request's range
WeekStarts == {DayBase + 2, DayBase + 9, DayBase + 16, DayBase + 23}

WeekEnds == {DayBase + 8, DayBase + 15, DayBase + 22, DayBase + 29}

\* the store that holds the days S: per day one Mañana row, whose income and
\* legacy variable total depend on the date
WeekBusinessDays(S) == {BusinessDay(d - DayBase, d, "complete") : d \in S}

WeekShiftRecords(S) ==
    {ShiftRecord(d - DayBase, d - DayBase, "Mañana",
                 Val(100 + (d - DayBase)), Val(2 * (d - DayBase)), Val(10), TRUE) : d \in S}

InitWeeks ==
    /\ \E S \in SUBSET WeekDays :
           /\ business_days = WeekBusinessDays(S)
           /\ shift_records = WeekShiftRecords(S)
    /\ expense_entries = {}
    /\ expense_categories = AggCategories
    /\ req = Idle
    /\ resp = Pending

\* io_dashboard (GET /io) for a range from a Monday to a Sunday, in either order
io_dashboard_weeks ==
    /\ req = Idle
    /\ \E a \in WeekStarts, b \in WeekEnds, swap \in BOOLEAN, cmp \in CompareForms :
           LET from == IF swap THEN b ELSE a
               to   == IF swap THEN a ELSE b
           IN  /\ req' = [op |-> "io_dashboard", from |-> from, to |-> to, compare |-> cmp]
               /\ \E cats \in cat_rows(ordered(from, to)[1], ordered(from, to)[2]) :
                      resp' = io_figures(from, to, cmp, cats)
    /\ UNCHANGED store

NextWeeks == io_dashboard_weeks

SpecWeeks == InitWeeks /\ [][NextWeeks]_vars

\* the ordered range of the io_dashboard request just served
ReqLo == IF req.from < req.to THEN req.from ELSE req.to

ReqHi == IF req.from < req.to THEN req.to ELSE req.from

\* the sum of a field over the tuples of the series whose date falls in ISO week yw
C13_WeekSum(series, yw, field) ==
    LET I == {i \in 1..Len(series) : isocalendar_yw(series[i].date) = yw}
    IN  SumF([i \in I |-> series[i][field]], I)

\* the sum of a field over the rows
C13_RowSum(rows, field) ==
    LET I == 1..Len(rows) IN SumF([i \in I |-> rows[i][field]], I)

\* the float avg is the quotient total / n
C13_IsQuotient(avg, total, n) == avg.num * n = total * avg.den

\* C13: io_dashboard has one weekly bucket per ISO (year, week) that holds a
\* day of the series, in ascending order, with the sums of its days' income
\* and expense and their difference as profit; and the weekly averages are
\* the sums over the buckets divided by the number of buckets.
C13_WeeklyBuckets ==
    (req.op = "io_dashboard" /\ resp.tag = "ok") =>
        LET series == range_series(ReqLo, ReqHi)
            rows   == resp.weekly_rows
            n      == Len(rows)
        IN  /\ {rows[j].label : j \in 1..n}
                   = {isocalendar_yw(series[i].date) : i \in 1..Len(series)}
            /\ \A j \in 1..(n - 1) : key_lt(rows[j].label, rows[j + 1].label)
            /\ \A j \in 1..n :
                   /\ rows[j].income = C13_WeekSum(series, rows[j].label, "income")
                   /\ rows[j].expense = C13_WeekSum(series, rows[j].label, "expense_total")
                   /\ rows[j].profit = rows[j].income - rows[j].expense
            /\ n > 0
            /\ C13_IsQuotient(resp.avg_week_income, C13_RowSum(rows, "income"), n)
            /\ C13_IsQuotient(resp.avg_week_expense, C13_RowSum(rows, "expense"), n)
            /\ C13_IsQuotient(resp.avg_week_profit, C13_RowSum(rows, "profit"), n)

\* a range of four weeks with days stored in W10 (two of them) and W12 only:
\* two buckets, and the average income is their sum divided by 2
C13_Witness ==
    /\ req.op = "io_dashboard"
    /\ resp.tag = "ok"
    /\ ReqLo = DayBase + 2 /\ ReqHi = DayBase + 29
    /\ {b.day : b \in business_days} = {DayBase + 2, DayBase + 3, DayBase + 16}
    /\ Len(resp.weekly_rows) = 2
    /\ resp.weekly_rows[1].label = <<2025, 10>>
    /\ resp.weekly_rows[1].income = 205
    /\ resp.weekly_rows[2].label = <<2025, 12>>
    /\ resp.avg_week_income = Float(321, 2)

(***************************************************************************)
(* The category ranking of io_dashboard: four categories, two of them with *)
(* the same name under different kinds, and days with their entries.       *)
(***************************************************************************)
CatCategories ==
    AggCategories
    \cup {ExpenseCategory(3, "fixed", "Luz"), ExpenseCategory(4, "variable", "Luz")}

\* the content of one day, as <<shift rows, entries>>, an entry being
\* <<kind, amount, category id>>: no record; legacy totals only; entries of
\* categories 1 and 2; of 3 and 1; of 4 (twice) and 3
CatDayChoices ==
    { "absent",
      <<{<<"Mañana", Val(100), Val(30), Val(20)>>}, <<>>>>,
      <<{<<"Mañana", Val(100), Val(30), Val(20)>>},
        <<<<"variable", Val(7), 1>>, <<"fixed", Val(11), 2>>>>>>,
      <<{<<"Mañana", Val(60), Val(0), Val(0)>>},
        <<<<"fixed", Val(7), 3>>, <<"variable", Val(4), 1>>>>>>,
      <<{<<"Mañana", Val(60), Val(5), Val(0)>>},
        <<<<"variable", Val(3), 4>>, <<"variable", Val(4), 4>>, <<"fixed", Val(11), 3>>>>>> }

CatExpenseEntries(c) ==
    UNION { { ExpenseEntry(10 * (d - DayBase + 1) + i, d - DayBase + 1, c[d][2][i][1],
                           c[d][2][i][3], c[d][2][i][2])
              : i \in 1..Len(c[d][2]) }
            : d \in AggStored(c) }

InitCats ==
    /\ \E c \in [Dates -> CatDayChoices] :
           /\ business_days = AggBusinessDays(c)
           /\ shift_records = AggShiftRecords(c)
           /\ expense_entries = CatExpenseEntries(c)
    /\ expense_categories = CatCategories
    /\ req = Idle
    /\ resp = Pending

NextCats == io_dashboard

SpecCats == InitCats /\ [][NextCats]_vars

\* the entries of category c on a stored day of the request's range
C14_Entries(c) ==
    { e \in expense_entries :
        /\ e.category_id = c.id
        /\ \E b \in business_days :
               b.id = e.business_day_id /\ b.day >= ReqLo /\ b.day <= ReqHi }

\* C14: the category ranking of io_dashboard has exactly one row for each
\* (kind, name) of a category with an entry on a stored day of [from, to],
\* its total is the sum of those entries' amounts, and the totals descend;
\* a category without entries in the range has no row, whatever the legacy
\* shift totals of the days.
C14_CategoryRanking ==
    (req.op = "io_dashboard" /\ resp.tag = "ok") =>
        LET rows == resp.cat_rows
            n    == Len(rows)
            with == {c \in expense_categories : C14_Entries(c) # {}}
        IN  /\ {<<rows[i].kind, rows[i].name>> : i \in 1..n} = {<<c.kind, c.name>> : c \in with}
            /\ n = Cardinality({<<c.kind, c.name>> : c \in with})
            /\ \A i \in 1..n : \A c \in with :
                   (c.kind = rows[i].kind /\ c.name = rows[i].name) =>
                       rows[i].total = SumF([e \in C14_Entries(c) |-> e.amount[1]], C14_Entries(c))
            /\ \A i \in 1..(n - 1) : rows[i].total >= rows[i + 1].total

\* Saturday holds entries on Luz (fixed and variable), Monday on Insumos and
\* Alquiler; the range is Monday alone: two rows, none for Luz, and Alquiler's
\* 11 ahead of Insumos' 7, whose day also carries legacy totals of 30 and 20
C14_Witness ==
    /\ req.op = "io_dashboard"
    /\ resp.tag = "ok"
    /\ ReqLo = DayBase + 2 /\ ReqHi = DayBase + 2
    /\ \E e \in expense_entries : e.category_id = 3 /\ e.business_day_id = 1
    /\ resp.cat_rows = << [kind |-> "fixed", name |-> "Alquiler", total |-> 11],
                          [kind |-> "variable", name |-> "Insumos", total |-> 7] >>

(***************************************************************************)
(* Claims about the stored days and their shift entries                    *)
(***************************************************************************)
\* the shift entries of the stored day b
C15_Shifts(b) == {s \in shift_records : s.business_day_id = b.id}

\* C15: in every reachable store, a day's status is "complete" exactly when
\* at least one of its shift entries is closed, and "draft" otherwise.
C15_StatusFollowsClosedShifts ==
    \A b \in business_days :
        /\ b.status \in {"complete", "draft"}
        /\ b.status = "complete" <=> \E s \in C15_Shifts(b) : s.is_closed

\* save_day left one shift of two closed, and the day is complete
C15_Witness ==
    /\ req.op = "save_day"
    /\ resp.tag = "ok"
    /\ \E b \in business_days :
           /\ b.status = "complete"
           /\ Cardinality(C15_Shifts(b)) = 2
           /\ Cardinality({s \in C15_Shifts(b) : s.is_closed}) = 1

\* C16: after any sequence of the handlers, no day has two shift entries
\* with the same label.
C16_OneShiftPerLabel ==
    \A s1 \in shift_records, s2 \in shift_records :
        (s1.business_day_id = s2.business_day_id /\ s1.shift = s2.shift) => s1 = s2

\* edit_day on a day that the importer created and filled, on which
\* ensure_shifts has then run several times: still one row per label
C16_Witness ==
    /\ req.op = "edit_day"
    /\ resp.tag = "ok"
    /\ \E b \in business_days :
           /\ Cardinality(C15_Shifts(b)) = 2
           /\ \E s \in C15_Shifts(b) : s.shift = "Mañana" /\ s.income = Val(80)
           /\ \E s \in C15_Shifts(b) : s.shift = "Tarde"

(***************************************************************************)
(* The category and expense handlers with a wider choice of names: every   *)
(* sequence of add_category, rename_category, delete_category, add_expense *)
(* and delete_expense from the empty store.                                *)
(***************************************************************************)
\* "A", " A " and "B"; the blank name is among NameForms
CategoryNames == {<<"A">>, <<" ", "A", " ">>, <<"B">>}

add_category_named == add_category_of(CategoryNames)

rename_category_named == rename_category_of(CategoryNames)

NextCategory ==
    \/ add_category_named
    \/ rename_category_named
    \/ delete_category
    \/ add_expense
    \/ delete_expense

SpecCategory == Init /\ [][NextCategory]_vars

\* the name of the request just served as it would be stored: surrounding
\* blanks dropped, inner runs of blanks made one space
C17_Wanted == clean_name(req'.name)

\* the request just served asks for a (kind, name) that another stored
\* category already has
C17_Taken ==
    \/ /\ req'.op = "add_category"
       /\ \E c \in expense_categories : c.kind = req'.kind /\ c.name = C17_Wanted
    \/ /\ req'.op = "rename_category"
       /\ \E c \in expense_categories, x \in expense_categories :
              /\ c.id = req'.cid
              /\ x.id # c.id /\ x.kind = c.kind /\ x.name = C17_Wanted

\* C17: no two stored categories have the same (kind, name), and an
\* add_category or rename_category that asks for a (kind, name) already
\* taken by another category is rejected and leaves the store unchanged.
C17_UniqueKindName ==
    /\ [](\A c1 \in expense_categories, c2 \in expense_categories :
              (c1.kind = c2.kind /\ c1.name = c2.name) => c1 = c2)
    /\ [][C17_Taken => (resp'.tag = "rejected" /\ UNCHANGED store)]_vars

\* renaming category 2 to " A " was rejected: category 1, of the same kind,
\* is named "A"
C17_Witness ==
    /\ req.op = "rename_category"
    /\ req.cid = 2
    /\ req.name = <<" ", "A", " ">>
    /\ resp = Resp("rejected", "Ya existe una categoría con ese nombre.")
    /\ \E c1 \in expense_categories, c2 \in expense_categories :
           /\ c1.id = 1 /\ c1.name = <<"A">>
           /\ c2.id = 2 /\ c2.name = <<"B">>
           /\ c1.kind = c2.kind

\* C18: every stored expense entry references a stored category, and a
\* delete_category of a category that an entry references is rejected and
\* leaves the store unchanged.
C18_EntriesKeepTheirCategory ==
    /\ [](\A e \in expense_entries : \E c \in expense_categories : c.id = e.category_id)
    /\ [][(req'.op = "delete_category"
             /\ \E e \in expense_entries : e.category_id = req'.cid)
          => (resp'.tag = "rejected" /\ UNCHANGED store)]_vars

\* delete_category was refused for the category of the stored entry
C18_Witness ==
    /\ req.op = "delete_category"
    /\ resp = Resp("rejected", "No se puede borrar: la categoría tiene gastos asociados.")
    /\ \E e \in expense_entries : e.category_id = req.cid
    /\ \E c \in expense_categories : c.id = req.cid

\* C19: every stored expense entry has the kind of the category it
\* references, and no step changes the kind of a stored category.
C19_EntryKindIsCategoryKind ==
    /\ [](\A e \in expense_entries : \A c \in expense_categories :
              c.id = e.category_id => c.kind = e.kind)
    /\ [][\A c \in expense_categories : \A d \in expense_categories' :
              c.id = d.id => c.kind = d.kind]_vars

\* add_expense with the other kind was refused for a category that holds an
\* entry of its own kind, and that category has been renamed since it was added
C19_Witness ==
    /\ req.op = "add_expense"
    /\ resp = Resp("rejected", "Categoría inválida.")
    /\ \E e \in expense_entries : \E c \in expense_categories :
           /\ c.id = e.category_id /\ c.kind = e.kind
           /\ c.name = <<"B">>
           /\ \A x \in expense_categories : x.id = c.id

(***************************************************************************)
(* The ranking of dashboard_finanzas over the working week Monday          *)
(* 2025-03-03 to Friday 2025-03-07.  The store holds any subset of the     *)
(* five days, each with income 100 and a profit of 50 or 70, so that days  *)
(* of equal profit occur.                                                  *)
(***************************************************************************)
RankDays == {DayBase + k : k \in 2..6}

\* the legacy variable total of a stored day: profit is 100 less this
RankCosts == {30, 50}

\* the store that holds the days of S, the function c giving each its cost
RankBusinessDays(S) == {BusinessDay(d - DayBase, d, "complete") : d \in S}

RankShiftRecords(S, c) ==
    {ShiftRecord(d - DayBase, d - DayBase, "Mañana",
                 Val(100), Val(c[d]), Val(0), TRUE) : d \in S}

InitRank ==
    /\ \E S \in SUBSET RankDays, c \in [RankDays -> RankCosts] :
           /\ business_days = RankBusinessDays(S)
           /\ shift_records = RankShiftRecords(S, c)
    /\ expense_entries = {}
    /\ expense_categories = AggCategories
    /\ req = Idle
    /\ resp = Pending

\* dashboard_finanzas (GET /finanzas) for a range within the week
dashboard_finanzas_week ==
    /\ req = Idle
    /\ \E from \in RankDays, to \in RankDays :
           /\ req' = [op |-> "dashboard_finanzas", from |-> from, to |-> to]
           /\ resp' = finanzas_figures(from, to)
    /\ UNCHANGED store

NextRank == dashboard_finanzas_week

SpecRank == InitRank /\ [][NextRank]_vars

\* the dates of a list of ranked items
C20_Dates(items) == {items[i].date : i \in 1..Len(items)}

\* the list holds min(3, n) of the n days of the series, none twice
C20_ThreeOf(items, series) ==
    /\ Len(items) = (IF Len(series) < 3 THEN Len(series) ELSE 3)
    /\ C20_Dates(items) \subseteq {series[i].date : i \in 1..Len(series)}
    /\ Cardinality(C20_Dates(items)) = Len(items)
    /\ \A i \in 1..Len(items) : \A k \in 1..Len(series) :
           series[k].date = items[i].date => series[k].profit = items[i].profit

\* days of equal profit that are next to each other are in ascending date order
C20_TiesByDate(items) ==
    \A i \in 1..(Len(items) - 1) :
        items[i].profit = items[i + 1].profit => items[i].date < items[i + 1].date

\* worst3: the lowest profits of the series, ascending, ties by ascending date
C20_Worst3 ==
    (req.op = "dashboard_finanzas" /\ resp.tag = "ok") =>
        /\ C20_ThreeOf(resp.worst3, resp.series)
        /\ \A i \in 1..(Len(resp.worst3) - 1) :
               resp.worst3[i].profit <= resp.worst3[i + 1].profit
        /\ \A i \in 1..Len(resp.worst3) : \A k \in 1..Len(resp.series) :
               resp.series[k].date \notin C20_Dates(resp.worst3)
                   => resp.worst3[i].profit <= resp.series[k].profit
        /\ C20_TiesByDate(resp.worst3)

\* best3: the highest profits of the series, descending, ties by ascending date
C20_Best3 ==
    (req.op = "dashboard_finanzas" /\ resp.tag = "ok") =>
        /\ C20_ThreeOf(resp.best3, resp.series)
        /\ \A i \in 1..(Len(resp.best3) - 1) :
               resp.best3[i].profit >= resp.best3[i + 1].profit
        /\ \A i \in 1..Len(resp.best3) : \A k \in 1..Len(resp.series) :
               resp.series[k].date \notin C20_Dates(resp.best3)
                   => resp.best3[i].profit >= resp.series[k].profit
        /\ C20_TiesByDate(resp.best3)

\* C20: in dashboard_finanzas the worst-3 list is the three days of the
\* series with the lowest profit, in ascending profit order, the best-3 list
\* is the three days with the highest profit, in descending profit order,
\* and in both lists days of equal profit are in ascending date order.
C20_RankingStable == C20_Worst3 /\ C20_Best3

(***************************************************************************)
(* Claims about the missing days and the period comparison                 *)
(***************************************************************************)
\* the non-Sunday days of the range of the request just served
C21_Workdays == {d \in ReqLo..ReqHi : ~is_sunday(d)}

\* the dates of the list s
C21_Set(s) == {s[i] : i \in 1..Len(s)}

\* C21: the missing-day list of dashboard_finanzas is, in ascending order,
\* the set of non-Sunday days of the range that have no stored day record;
\* it is disjoint from the dates of range_series over the range, and with
\* them it covers every non-Sunday day of the range.
C21_MissingDays ==
    (req.op = "dashboard_finanzas" /\ resp.tag = "ok") =>
        LET missing == resp.missing_days
            series  == range_series(ReqLo, ReqHi)
            dates   == {series[i].date : i \in 1..Len(series)}
        IN  /\ \A i \in 1..(Len(missing) - 1) : missing[i] < missing[i + 1]
            /\ C21_Set(missing)
                   = {d \in C21_Workdays : \A b \in business_days : b.day # d}
            /\ C21_Set(missing) \cap dates = {}
            /\ C21_Set(missing) \cup dates = C21_Workdays

\* a range from Saturday to Monday: Saturday is stored, Sunday has no record
\* and Monday is the one missing day
C21_Witness ==
    /\ req.op = "dashboard_finanzas"
    /\ ReqLo = DayBase /\ ReqHi = DayBase + 2
    /\ resp.tag = "ok"
    /\ resp.missing_days = <<DayBase + 2>>
    /\ Len(resp.series) = 1
    /\ \A b \in business_days : b.day = DayBase

\* the content of one day of a store whose periods io_dashboard compares: no
\* record, or one Mañana row with income 100 and expenses 30, with income
\* and expenses both 100 (no profit), or with expenses 40 and no income
CompareDayChoices ==
    { "absent",
      <<{<<"Mañana", Val(100), Val(30), Val(0)>>}, <<>>>>,
      <<{<<"Mañana", Val(100), Val(60), Val(40)>>}, <<>>>>,
      <<{<<"Mañana", Val(0), Val(40), Val(0)>>}, <<>>>> }

InitCompare ==
    /\ \E c \in [Dates -> CompareDayChoices] :
           /\ business_days = AggBusinessDays(c)
           /\ shift_records = AggShiftRecords(c)
           /\ expense_entries = AggExpenseEntries(c)
    /\ expense_categories = AggCategories
    /\ req = Idle
    /\ resp = Pending

NextCompare == io_dashboard

SpecCompare == InitCompare /\ [][NextCompare]_vars

\* pct is undefined exactly when the comparison value b is zero, and is
\* otherwise the quotient (a - b) * 100 / b, whose divisor is not zero
C22_Pct(pct, a, b) ==
    /\ pct = Null <=> b = 0
    /\ pct # Null => /\ pct[1].den # 0
                     /\ pct[1].num * b = (a - b) * 100 * pct[1].den

\* C22: in the comparison of io_dashboard the deltas of income, expense and
\* profit are primary minus comparison, and each delta percentage is
\* (primary - comparison) / comparison * 100 when the comparison value is not
\* zero and undefined exactly when it is zero, so that nothing is divided by
\* zero.
C22_Deltas ==
    (req.op = "io_dashboard" /\ resp.tag = "ok") =>
        LET cseries  == range_series(resp.cd1, resp.cd2)
            cincome  == SumSeq(cseries, "income")
            cexpense == SumSeq(cseries, "expense_total")
            cprofit  == cincome - cexpense
        IN  /\ resp.di = resp.income - cincome
            /\ resp.de = resp.expense - cexpense
            /\ resp.dp = resp.profit - cprofit
            /\ C22_Pct(resp.dip, resp.income, cincome)
            /\ C22_Pct(resp.dep, resp.expense, cexpense)
            /\ C22_Pct(resp.dpp, resp.profit, cprofit)

\* the comparison period holds one day with income and expenses both 100, and
\* the primary period a day with income 100 and expenses 30: the percentages
\* of income and expense are 0 and -70, that of profit is undefined
C22_Witness ==
    /\ req.op = "io_dashboard"
    /\ resp.tag = "ok"
    /\ resp.income = 100 /\ resp.expense = 30
    /\ resp.cincome = 100 /\ resp.cexpense = 100 /\ resp.cprofit = 0
    /\ resp.dip # Null /\ resp.dip[1].num = 0
    /\ resp.dep # Null /\ resp.dep[1].num * 1 = (0 - 70) * resp.dep[1].den
    /\ resp.dpp = Null

(***************************************************************************)
(* The four aggregations side by side, over stores that hold days without  *)
(* shift rows, days with legacy totals and days with category entries.     *)
(***************************************************************************)
\* the content of one day: no record, a record with one category entry and
\* no shift row, or a record with both shift rows and a closed Tarde
ReadDayChoices ==
    { "absent",
      <<{}, <<<<"fixed", Val(11)>>>>>>,
      <<{<<"Mañana", Val(100), Val(30), Val(20)>>, <<"Tarde", Val(60), Null, Val(0)>>}, <<>>>> }

InitRead ==
    /\ \E c \in [Dates -> ReadDayChoices] :
           /\ business_days = AggBusinessDays(c)
           /\ shift_records = AggShiftRecords(c)
           /\ expense_entries = AggExpenseEntries(c)
    /\ expense_categories = AggCategories
    /\ req = Idle
    /\ resp = Pending

NextRead ==
    \/ call_day_totals
    \/ call_range_series
    \/ dashboard_finanzas
    \/ io_dashboard

SpecRead == InitRead /\ [][NextRead]_vars

\* C23: range_series, day_totals, dashboard_finanzas and io_dashboard are
\* read-only: a step that serves one of them leaves the day records, the
\* shift entries, the expense entries and the categories as they were.
C23_ReadOnly ==
    [][req'.op \in {"range_series", "day_totals", "dashboard_finanzas", "io_dashboard"}
          => UNCHANGED store]_vars

\* dashboard_finanzas has shown a range that holds a day with no shift row,
\* and the day still has none
C23_Witness ==
    /\ req.op = "dashboard_finanzas"
    /\ resp.tag = "ok"
    /\ \E b \in business_days :
           /\ b.day >= resp.d1 /\ b.day <= resp.d2
           /\ ~is_sunday(b.day)
           /\ \A s \in shift_records : s.business_day_id # b.id
           /\ \E e \in expense_entries : e.business_day_id = b.id

(***************************************************************************)
(* Claims about the expense entries                                        *)
(***************************************************************************)
\* C24: every stored expense entry has an amount greater than 0, and an
\* add_expense that is rejected for its amount (blank, zero, negative or
\* unparseable) stores no entry.
C24_PositiveAmounts ==
    /\ [](\A e \in expense_entries : e.amount # Null /\ e.amount[1] > 0)
    /\ [][(req'.op = "add_expense"
             /\ resp'.msg \in {"Monto inválido.", "El monto debe ser mayor a 0."})
          => expense_entries' = expense_entries]_vars

\* add_expense has refused an amount that is not above zero, and the one
\* stored entry is that of an earlier request, with amount 50
C24_Witness ==
    /\ req.op = "add_expense"
    /\ resp = Resp("rejected", "El monto debe ser mayor a 0.")
    /\ \E e \in expense_entries : expense_entries = {e} /\ e.amount = Val(50)

(***************************************************************************)
(* Claims about the importer                                               *)
(***************************************************************************)
\* the stored shift entries of (day d, label shift)
C25_Entries(days, shifts, d, shift) ==
    {s \in shifts : s.shift = shift /\ \E b \in days : b.day = d /\ b.id = s.business_day_id}

\* the import just served ran in skip mode on a sheet whose rows are all
\* accepted and whose first row is the Mañana of DayBase, with income 80 and
\* legacy totals 30 and 20, and no shift entry was stored for that day and
\* label before the import
C25_NewRowInSkipMode ==
    /\ req'.op = "import_balance_excel"
    /\ req'.mode = "skip"
    /\ req'.sheet \in {<<RowMorning>>, <<RowMorning, RowAfternoonNoDate>>}
    /\ C25_Entries(business_days, shift_records, DayBase, "Mañana") = {}

\* C25: in skip mode an accepted row whose (day, shift) had no entry before
\* the import, the day having a record or not, is written (the entry
\* afterwards carries the row's income and legacy totals) and is counted as
\* imported, not skipped.
C25_SkipModeUpserts ==
    [][C25_NewRowInSkipMode =>
           /\ resp'.tag = "ok"
           /\ resp'.skipped = 0
           /\ resp'.imported = Len(req'.sheet)
           /\ \E s \in C25_Entries(business_days', shift_records', DayBase, "Mañana") :
                  /\ s.income = Val(80)
                  /\ s.variable_expense_total = Val(30)
                  /\ s.fixed_expense_total = Val(20)]_vars

(***************************************************************************)
(* The two money parsers side by side: one call of safe_float or of        *)
(* _to_float_money on each input of ParseInputs.                           *)
(***************************************************************************)
InitMoney ==
    /\ EmptyStore
    /\ req \in {[op |-> o, v |-> x] : o \in {"safe_float", "to_float_money"}, x \in ParseInputs}
    /\ resp = Pending

call_to_float_money ==
    /\ req.op = "to_float_money"
    /\ resp = Pending
    /\ resp' = to_float_money(req.v)
    /\ UNCHANGED <<store, req>>

NextMoney == call_safe_float \/ call_to_float_money

SpecMoney == InitMoney /\ [][NextMoney]_vars

\* the result of the parser that the call just served did not use
C26_Other == IF req.op = "safe_float" THEN to_float_money(req.v) ELSE safe_float(req.v)

\* C26: _to_float_money and safe_float return the same value for every
\* input, None, number or string, and one raises only if the other does.
C26_SameContract ==
    (req.op \in {"safe_float", "to_float_money"} /\ resp # Pending) =>
        /\ IsFloat(resp) <=> IsFloat(C26_Other)
        /\ IsFloat(resp) /\ IsFloat(C26_Other) => NumEq(resp, C26_Other)

(***************************************************************************)
(* Claims that relate range_series, day_totals and the expense handlers    *)
(***************************************************************************)
\* C27: every tuple of range_series has the income, variable_expense,
\* fixed_expense, expense_total and profit that day_totals gives for the
\* stored day record of the tuple's date.
C27_SeriesAgreesWithDayTotals ==
    SeriesDone =>
        \A i \in 1..Len(resp.series) :
            LET x == resp.series[i]
                t == day_totals(RecordOf(x.date))
            IN  /\ x.income = t.income
                /\ x.variable_expense = t.variable_expense
                /\ x.fixed_expense = t.fixed_expense
                /\ x.expense_total = t.expense_total
                /\ x.profit = t.profit

\* the series holds a day with shift rows, legacy totals and category
\* entries, one of them with a null amount, and a day with no shift row
C27_Witness ==
    /\ SeriesDone
    /\ \E i \in 1..Len(resp.series) :
           LET d == resp.series[i].date
           IN  /\ \E e \in EntriesOn(d) : e.amount = Null
               /\ \E s \in ShiftsOn(d) : s.fixed_expense_total # Null
               /\ resp.series[i].fixed_expense = 11
    /\ \E i \in 1..Len(resp.series) :
           /\ ShiftsOn(resp.series[i].date) = {}
           /\ resp.series[i].income = 0

\* the step is a successful add_expense for a day that had a record
C28_AddedToStoredDay ==
    /\ req'.op = "add_expense"
    /\ resp' = Resp("ok", "Gasto agregado.")
    /\ has_day(Current, req'.day)

\* the entry the step has created
C28_Created == CHOOSE e \in expense_entries' : e \notin expense_entries

\* the tables after the step
C28_After == Tables(business_days', shift_records', expense_entries', expense_categories')

\* the step is a delete_expense that has deleted an entry
C28_Deleted ==
    /\ req'.op = "delete_expense"
    /\ \E e \in expense_entries : e.id = req'.eid

\* C28: for a day with a record, a successful add_expense followed by the
\* delete_expense of the created entry gives back the store, and so the
\* day_totals, of before the add: the add changes nothing but the entries
\* and the totals of other days, the delete of the created entry leaves the
\* tables of before the add, and a delete_expense changes the totals of a
\* day only through the entries, the legacy shift totals staying as they were.
C28_AddThenDeleteRestoresTotals ==
    /\ [][C28_AddedToStoredDay =>
              /\ delete_entry(C28_After, C28_Created.id) = Current
              /\ \A b \in business_days :
                     b.id # C28_Created.business_day_id => day_totals(b)' = day_totals(b)]_vars
    /\ [][C28_Deleted =>
              /\ shift_records' = shift_records
              /\ business_days' = business_days
              /\ expense_entries' = {e \in expense_entries : e.id # req'.eid}
              /\ \A b \in business_days :
                     (\A e \in expense_entries' : e.business_day_id # b.id)
                         => /\ day_totals(b)'.variable_expense
                                  = SumF([s \in shifts_of(b) |-> or0(s.variable_expense_total)],
                                         shifts_of(b))
                            /\ day_totals(b)'.fixed_expense
                                  = SumF([s \in shifts_of(b) |-> or0(s.fixed_expense_total)],
                                         shifts_of(b))]_vars

\* the only entry of a day with legacy totals 30 and 20 has been deleted, and
\* day_totals gives the legacy totals again
C28_Witness ==
    /\ req.op = "delete_expense"
    /\ resp = Resp("ok", "Gasto borrado.")
    /\ expense_entries = {}
    /\ \E b \in business_days :
           /\ day_totals(b).variable_expense = 30
           /\ day_totals(b).fixed_expense = 20
           /\ day_totals(b).income = 80

\* the step is an add_expense for a non-Sunday date that was rejected for its
\* kind, its category or its amount
C29_Rejected ==
    /\ req'.op = "add_expense"
    /\ req'.day # BadDate
    /\ ~is_sunday(req'.day)
    /\ resp'.tag = "rejected"
    /\ resp'.msg \in {"Tipo de gasto inválido.", "Elegí una categoría.", "Monto inválido.",
                      "El monto debe ser mayor a 0.", "Categoría inválida."}

\* C29: an add_expense that is rejected for a non-Sunday date leaves the
\* record store unchanged: it creates no day record, shift entry or expense
\* entry, and range_series holds the date after the call only if it held it
\* before.
C29_RejectedAddLeavesStore ==
    [][C29_Rejected =>
           /\ UNCHANGED store
           /\ \A d \in OpDates : range_series(d, d)' = range_series(d, d)]_vars

\* C30: every stored day record has a shift entry for each label of the
\* enumeration, Mañana and Tarde: edit_day, add_expense and
\* import_balance_excel create the missing shift entries of a day record they
\* create before they commit.
C30_EveryDayHasItsShifts ==
    \A b \in business_days :
        \A i \in 1..Len(ShiftLabels) :
            \E s \in shift_records : s.business_day_id = b.id /\ s.shift = ShiftLabels[i]

\* an import in replace mode of one Mañana row has created the day: its
\* Mañana entry carries the row, and its Tarde entry is there with the defaults
C30_Witness ==
    /\ req.op = "import_balance_excel"
    /\ req.mode = "replace"
    /\ req.sheet = <<RowMorning>>
    /\ resp.tag = "ok"
    /\ \E b \in business_days :
           /\ b.day = DayBase
           /\ \E s \in shift_records :
                  s.business_day_id = b.id /\ s.shift = "Mañana" /\ s.income = Val(80)
           /\ \E s \in shift_records :
                  /\ s.business_day_id = b.id /\ s.shift = "Tarde"
                  /\ s.income = Val(0) /\ ~s.is_closed

====
